---- MODULE Spec2Model ----
(***************************************************************************)
(* Model of the ts-flow execution engine: Task.run (retry loop, timeout    *)
(* race) and Workflow (execute / resume stepping loops, pause, cancel,     *)
(* checkpoint persistence, restoreState).                                  *)
(*                                                                         *)
(* Every `await` of the source is a step boundary: an invocation of        *)
(* execute, resume or Task.run is a record in `calls` whose pc names the   *)
(* promise it is waiting for, and one action runs the synchronous code     *)
(* between two awaits.  pause(), cancel(), restoreWorkflow() and new       *)
(* execute()/resume() invocations may happen between any two such steps.   *)
(***************************************************************************)
EXTENDS Integers, Sequences, FiniteSets, TLC

\* ---------------------------------------------------------------- bounds
NumTasks == 3
MaxCalls == 2
MaxActive == 2
MaxRetryCount == 3
WorkflowRetryCount == 2
TimeoutMs == 1
NumChildren == 3
NumValues == 2
MaxViolations == 2
MaxJobs == 3
MaxFirings == 3
MaxAttempt == 6
NumMiddleware == 3
MaxContinuations == 2
NumHooks == 3

Tasks == 0 .. (NumTasks - 1)
Inst == {"original", "fresh"}
\* the records of the invocations made on an instance, in order of invocation
Calls == Inst \X (1 .. MaxCalls)
\* the child tasks of a composite task, in the order they were supplied
Children == 1 .. NumChildren
\* the values a child's unit of work may resolve with
ResultValues == 0 .. (NumValues - 1)

VARIABLES
    status,            \* Workflow.status, per instance
    currentTaskIndex,  \* Workflow.currentTaskIndex, per instance
    isPaused,          \* Workflow.isPaused, per instance
    isCancelled,       \* Workflow.isCancelled, per instance
    context,           \* Workflow.context: index into ctxs, 0 = undefined
    workflowStates,    \* InMemoryPersistence.workflowStates entry of the workflow name
    taskStates,        \* InMemoryPersistence.taskStates, per task name
    ctxs,              \* the WorkflowContext objects created so far
    taskStatus,        \* Task.status of every task object
    calls,             \* the invocations of execute / resume / Task.run
    retryCount,        \* TTaskOptions.retryCount of the tasks
    timeout,           \* TTaskOptions.timeout of the tasks
    started,           \* history: number of Task.run invocations per task
    pauses,            \* history: per instance, the tasks in flight at each effective pause
    trace,             \* history: the await points entered by the calls, in order
    atCancel,          \* history: the per-task outputs of the context at the last effective cancel
    compKind,          \* which composite task is run: ParallelTask or ConditionalTask
    compPc,            \* the await point of the composite task's Task.run
    compStatus,        \* Task.status of the composite task
    compRet,           \* the value the composite task's run resolved with
    condition,         \* what ConditionalTask.condition(context) returns
    results,           \* the results array of ConditionalTask's unit of work
    promiseAll,        \* the values array of the Promise.all of ParallelTask's unit of work
    childResult,       \* the value each child's unit of work resolves with
    childPc,           \* the await point of each child's Task.run
    childStatus,       \* Task.status of each child
    childOutputs,      \* context.taskOutputs under each child's name
    childRan,          \* history: number of invocations of each child's unit of work
    order,             \* history: the children in the order their run completed
    workflows,         \* FlowManager.workflows: the instance registered under each name
    managerCall,       \* history: the pause/resume/cancelWorkflow call made by the last step
    cronExpression,    \* ScheduledTask.cronExpression
    cronJob,           \* ScheduledTask.cronJob: the id of the job held, 0 = null
    armed,             \* the cron jobs whose recurring trigger is armed
    jobs,              \* number of cron jobs created so far
    jobExpression,     \* the expression each cron job was created with
    firings,           \* history: number of times a trigger has fired
    scheduleCall,      \* history: the last start / stop / schedule call and its outcome
    backoffOptions,    \* the TBackoffOptions a strategy is created from
    initialDelay,      \* ExponentialBackoffStrategy.initialDelay
    maxDelay,          \* ExponentialBackoffStrategy.maxDelay
    lastAttempt,       \* history: the argument of the last getDelay call, 0 = none yet
    lastDelay,         \* history: the result of the last getDelay call
    timers,            \* the setTimeout timers of executeWithTimeout, per Task.run call
    waits,             \* the retry sleeps of Task.run so far: attempt number and delay
    middleware,        \* options.middleware of the workflow: per middleware, how often it calls its continuation
    mw,                \* the pass of runMiddlewareWithTask around the workflow's current task
    builtWith,         \* how the ParallelTask was constructed
    workflowOptions,   \* ParallelTask.workflowOptions.middleware
    childMw,           \* the pass of runMiddlewareWithTask around each child of the ParallelTask
    evals,             \* history: the values the predicate of the ConditionalTask returned
    hooks,             \* HookManager.hooks: the number of hooks registered under each hook type
    hookPc,            \* where each registered hook is in the executeHooks call
    hookStarts,        \* history: the hooks in the order they were invoked
    hooksCall          \* the executeHooks call: its hook type and whether it has settled

vars == <<status, currentTaskIndex, isPaused, isCancelled, context,
          workflowStates, taskStates, ctxs, taskStatus, calls,
          retryCount, timeout, started, pauses, trace, atCancel,
          compKind, compPc, compStatus, compRet, condition, results, promiseAll,
          childResult, childPc, childStatus, childOutputs, childRan, order,
          workflows, managerCall, cronExpression, cronJob, armed, jobs, jobExpression,
          firings, scheduleCall, backoffOptions, initialDelay, maxDelay, lastAttempt, lastDelay,
          timers, waits, middleware, mw, builtWith, workflowOptions, childMw,
          evals, hooks, hookPc, hookStarts, hooksCall>>

wfVars == <<status, currentTaskIndex, isPaused, isCancelled, context>>
storeVars == <<workflowStates, taskStates>>
taskVars == <<taskStatus, started>>
cfgVars == <<retryCount, timeout>>
histVars == <<pauses, trace, atCancel>>
engineVars == <<wfVars, storeVars, ctxs, taskVars, calls, cfgVars, histVars>>
compVars == <<compKind, compPc, compStatus, compRet, condition, results, promiseAll>>
childVars == <<childResult, childPc, childStatus, childOutputs, childRan, order>>
mgrVars == <<workflows, managerCall>>
schedVars == <<cronExpression, cronJob, armed, jobs, jobExpression, firings, scheduleCall>>
backoffVars == <<backoffOptions, initialDelay, maxDelay, lastAttempt, lastDelay>>
\* the state outside the workflow engine
mwVars == <<middleware, mw, builtWith, workflowOptions, childMw>>
hookVars == <<hooks, hookPc, hookStarts, hooksCall>>
auxVars == <<timers, waits, mwVars, evals, hookVars>>
extVars == <<compVars, childVars, mgrVars, schedVars, backoffVars, auxVars>>
\* the state outside a composite task
nonCompVars == <<engineVars, mgrVars, schedVars, backoffVars, auxVars>>

\* ------------------------------------------------------------- constants
NoState == [status |-> "none", currentTaskIndex |-> -1]
NoOutput == [i \in Tasks |-> -1]
TerminalStatuses == {"Completed", "Failed", "Cancelled"}

\* a state as handed to IPersistence.saveWorkflowState by saveStatus
SavedState(s, i) == [status |-> s, currentTaskIndex |-> i]

\* new WorkflowContext(input): the input, no task outputs, output undefined
WorkflowContext(input) ==
    [input |-> input, taskOutputs |-> [i \in Tasks |-> 0], output |-> NoOutput]

\* the context handed to a directly run task
EmptyContext == WorkflowContext(0)

\* variant: the map is replaced by one that holds the new entry only
setTaskOutputMut(x, i) ==
    [ctxs EXCEPT ![x].taskOutputs = [j \in Tasks |-> IF j = i THEN 1 ELSE 0]]

\* context.setTaskOutput(name, output) on context x: the results of two
\* invocations of a unit of work are never assumed equal, so the value held
\* for a task is identified by the number of times it has been set (0 = absent)
setTaskOutput(x, i) == [ctxs EXCEPT ![x].taskOutputs[i] = @ + 1]

\* the output of an uninterrupted execute: under every task's name the value
\* set by its only run
FullOutput == [i \in Tasks |-> 1]

IdleCall == [kind |-> "none", w |-> "none", pc |-> "idle", task |-> -1,
             ctx |-> 0, attempt |-> 0, invoked |-> 0, orphans |-> 0,
             err |-> "none", ret |-> NoOutput, overlap |-> FALSE,
             ran |-> {}, handled |-> FALSE, errorHooks |-> FALSE, savedFailed |-> FALSE,
             errors |-> <<>>, message |-> <<>>, fired |-> <<>>,
             cause |-> "none"]

\* pcs at which a call is still running
DonePcs == {"idle", "returned", "rejected"}
Active(c) == calls[c].pc \notin DonePcs

\* the next invocation takes the first unused record; at most MaxActive
\* invocations are in flight at a time
FreeSlot(c, w) ==
    /\ c[1] = w
    /\ calls[c].kind = "none"
    /\ \A k \in 1 .. (c[2] - 1) : calls[<<w, k>>].kind # "none"
    /\ Cardinality({d \in Calls : d[1] = w /\ Active(d)}) < MaxActive

\* the record of a call of execute / resume that has settled
Settled(r, p, e, out) ==
    [r EXCEPT !.pc = p, !.err = e, !.ret = out, !.task = -1, !.ctx = 0,
              !.attempt = 0, !.invoked = 0]
\* pcs inside Task.run
RunPcs == {"unitOfWork", "taskHandleError", "retryDelay", "taskSave", "taskSaveFailed"}
HookPcs == {"wfStartHooks", "taskStartHooks", "taskFinishHooks",
            "allFinishHooks", "wfFinishHooks", "wfErrorHooks"}

\* a value that is not there: an unset slot, an absent task output
NoValue == -1
\* what a composite task's run resolves with: undefined, or a list of results
Undefined == [undef |-> TRUE, list |-> <<>>]
ListOf(s) == [undef |-> FALSE, list |-> s]

InFlight(w) == {calls[c].task : c \in {d \in Calls : calls[d].w = w /\ calls[d].pc \in RunPcs}}

\* ------------------------------------------------------------ RetryPolicy
shouldRetry(attempt, maxAttempts) == attempt < maxAttempts

\* ------------------------------------------------------------------ Init
InitCommon ==
    /\ status = [w \in Inst |-> "Pending"]
    /\ currentTaskIndex = [w \in Inst |-> 0]
    /\ isPaused = [w \in Inst |-> FALSE]
    /\ isCancelled = [w \in Inst |-> FALSE]
    /\ context = [w \in Inst |-> 0]
    /\ workflowStates = NoState
    /\ taskStates = [i \in Tasks |-> "none"]
    /\ taskStatus = [i \in Tasks |-> "Pending"]
    /\ calls = [c \in Calls |-> IdleCall]
    /\ started = [i \in Tasks |-> 0]
    /\ pauses = [w \in Inst |-> <<>>]
    /\ trace = <<>>
    /\ atCancel = NoOutput

\* no composite task is constructed
CompIdle ==
    /\ compKind = "none"
    /\ compPc = "idle"
    /\ compStatus = "Pending"
    /\ compRet = Undefined
    /\ condition = FALSE
    /\ results = <<>>
    /\ promiseAll = [j \in Children |-> NoValue]
    /\ childResult = [j \in Children |-> 0]
    /\ childPc = [j \in Children |-> "idle"]
    /\ childStatus = [j \in Children |-> "Pending"]
    /\ childOutputs = [j \in Children |-> NoValue]
    /\ childRan = [j \in Children |-> 0]
    /\ order = <<>>

\* a FlowManager with no workflow built
Names == {"flow", "ghost"}
NoCall == [op |-> "none", name |-> "none", outcome |-> "none"]
MgrIdle ==
    /\ workflows = [n \in Names |-> "none"]
    /\ managerCall = NoCall

\* no ScheduledTask is constructed
SchedIdle ==
    /\ cronExpression = "valid"
    /\ cronJob = 0
    /\ armed = {}
    /\ jobs = 0
    /\ jobExpression = <<>>
    /\ firings = 0
    /\ scheduleCall = NoCall

\* no backoff strategy is created
NoMaxDelay == -1
Infinity == -2
BackoffIdle ==
    /\ backoffOptions = [delay |-> 0, maxDelay |-> NoMaxDelay]
    /\ initialDelay = 0
    /\ maxDelay = Infinity
    /\ lastAttempt = 0
    /\ lastDelay = 0

\* no timer has been set
NoTimer == [armed |-> FALSE, stale |-> 0]
TimersIdle == timers = [c \in Calls |-> NoTimer]

\* no retry sleep has been started
WaitsIdle == waits = <<>>

\* a pass of runMiddlewareWithTask that has not begun
NoPass == [i |-> 0, stack |-> <<>>, log |-> <<>>, ctx |-> 0, state |-> "idle"]

\* no middleware is configured and no pass has begun
MwIdle ==
    /\ middleware = <<>>
    /\ mw = NoPass
    /\ builtWith = "none"
    /\ workflowOptions = <<>>
    /\ childMw = [j \in Children |-> NoPass]

\* the predicate of a ConditionalTask has not been called
EvalsIdle == evals = <<>>

\* a HookManager with no hook registered and no executeHooks call
HookTypes == {"onTaskStart", "onTaskFinish"}
HookSlots == 1 .. NumHooks
NoHooksCall == [hookType |-> "none", pc |-> "idle"]
NoHookRuns ==
    /\ hookPc = [t \in HookTypes |-> [k \in HookSlots |-> "idle"]]
    /\ hookStarts = <<>>
    /\ hooksCall = NoHooksCall
HooksIdle ==
    /\ hooks = [t \in HookTypes |-> 0]
    /\ NoHookRuns

AuxIdle == TimersIdle /\ WaitsIdle /\ MwIdle /\ EvalsIdle /\ HooksIdle

ExtIdle == CompIdle /\ MgrIdle /\ SchedIdle /\ BackoffIdle /\ AuxIdle

Init ==
    /\ InitCommon
    /\ ExtIdle
    /\ ctxs = <<>>
    /\ retryCount = WorkflowRetryCount
    /\ timeout = 0


\* ------------------------------------------------- Workflow: API methods
\* Workflow.execute up to its first await (no validator configured):
\* fresh context, status Running, saveStatus.  The input a call passes is
\* identified by the position of the call among the calls on the instance.
Execute(c, w) ==
    /\ FreeSlot(c, w)
    /\ ctxs' = Append(ctxs, WorkflowContext(c[2]))
    /\ context' = [context EXCEPT ![w] = Len(ctxs) + 1]
    /\ status' = [status EXCEPT ![w] = "Running"]
    /\ workflowStates' = SavedState("Running", currentTaskIndex[w])
    /\ calls' = [calls EXCEPT ![c] =
                   [IdleCall EXCEPT !.kind = "execute", !.w = w, !.pc = "saveStart",
                                    !.overlap = \E d \in Calls : calls[d].w = w /\ Active(d)]]
    /\ UNCHANGED <<currentTaskIndex, isPaused, isCancelled, taskStates, taskVars, cfgVars>>

\* ------------------------------------------------ Workflow: input validator
\* strings are sequences of character codes
ViolationPrefix ==
    <<87, 111, 114, 107, 102, 108, 111, 119, 32, 105, 110, 112, 117, 116, 32,
      118, 97, 108, 105, 100, 97, 116, 105, 111, 110, 32, 102, 97, 105, 108,
      101, 100, 58, 32>>
Separator == <<44, 32>>
\* the violation messages a validator may produce
Messages == {<<97>>, <<98, 99>>}
\* the arrays a validator may resolve with
ErrorLists == UNION {[1 .. n -> Messages] : n \in 0 .. MaxViolations}

JoinMut(errors) == IF errors = <<>> THEN <<>> ELSE errors[1]

\* Array.prototype.join(', ')
RECURSIVE Join(_)
Join(errors) ==
    IF errors = <<>> THEN <<>>
    ELSE IF Len(errors) = 1 THEN errors[1]
    ELSE errors[1] \o Separator \o Join(Tail(errors))

\* Workflow.execute with a validator configured, up to its first await: fresh
\* context, then the validator is awaited
ExecuteValidated(c, w) ==
    /\ FreeSlot(c, w)
    /\ ctxs' = Append(ctxs, WorkflowContext(c[2]))
    /\ context' = [context EXCEPT ![w] = Len(ctxs) + 1]
    /\ calls' = [calls EXCEPT ![c] =
                   [IdleCall EXCEPT !.kind = "execute", !.w = w, !.pc = "validator",
                                    !.overlap = \E d \in Calls : calls[d].w = w /\ Active(d)]]
    /\ UNCHANGED <<status, currentTaskIndex, isPaused, isCancelled, storeVars,
                   taskVars, cfgVars>>

\* the validator resolves with errors: a non-empty array makes execute throw an
\* Error whose message joins all of them; with an empty array execute goes on
\* to status Running and saveStatus
ValidatorReturns(c, errors) ==
    LET r == calls[c]  w == r.w IN
    /\ r.pc = "validator"
    /\ IF Len(errors) > 0
       THEN /\ calls' = [calls EXCEPT ![c] =
                           [Settled(r, "rejected", "Error", NoOutput)
                               EXCEPT !.errors = errors,
                                      !.message = ViolationPrefix \o Join(errors)]]
            /\ UNCHANGED <<status, workflowStates>>
       ELSE /\ status' = [status EXCEPT ![w] = "Running"]
            /\ workflowStates' = SavedState("Running", currentTaskIndex[w])
            /\ calls' = [calls EXCEPT ![c].pc = "saveStart"]
    /\ UNCHANGED <<currentTaskIndex, isPaused, isCancelled, context, taskStates,
                   ctxs, taskVars, cfgVars>>

\* variant: pause() also takes effect on a workflow that was never executed
PauseAllowedMut(w) == status[w] \in {"Running", "Pending"}

\* the guard of Workflow.pause
PauseAllowed(w) == status[w] = "Running"

\* Workflow.pause
Pause(w) ==
    /\ IF ~PauseAllowed(w)
       THEN UNCHANGED <<status, isPaused, workflowStates>>
       ELSE /\ isPaused' = [isPaused EXCEPT ![w] = TRUE]
            /\ status' = [status EXCEPT ![w] = "Paused"]
            /\ workflowStates' = SavedState("Paused", currentTaskIndex[w])
    /\ UNCHANGED <<currentTaskIndex, isCancelled, context, taskStates, ctxs,
                   taskVars, calls, cfgVars>>

\* variant: cancel() also takes effect on a workflow that has completed
CancelAllowedMut(w) == status[w] \in {"Running", "Paused", "Completed"}

\* the guard of Workflow.cancel
CancelAllowed(w) == status[w] \in {"Running", "Paused"}

\* Workflow.cancel
Cancel(w) ==
    /\ IF ~CancelAllowed(w)
       THEN UNCHANGED <<status, isCancelled, workflowStates>>
       ELSE /\ isCancelled' = [isCancelled EXCEPT ![w] = TRUE]
            /\ status' = [status EXCEPT ![w] = "Cancelled"]
            /\ workflowStates' = SavedState("Cancelled", currentTaskIndex[w])
    /\ UNCHANGED <<currentTaskIndex, isPaused, context, taskStates, ctxs,
                   taskVars, calls, cfgVars>>

\* variant: resume() is also accepted on a cancelled workflow
ResumeAllowedMut(w) == status[w] \in {"Paused", "Cancelled"}

\* the guard of Workflow.resume
ResumeAllowed(w) == status[w] = "Paused"

\* variant: resume() restarts the loop from index 0
ResumeMut(c, w) ==
    /\ FreeSlot(c, w)
    /\ IF ~ResumeAllowed(w)
       THEN /\ calls' = [calls EXCEPT ![c] =
                   [IdleCall EXCEPT !.kind = "resume", !.w = w, !.pc = "rejected",
                                    !.err = "NotPausedError"]]
            /\ UNCHANGED <<status, isPaused, workflowStates, currentTaskIndex>>
       ELSE /\ isPaused' = [isPaused EXCEPT ![w] = FALSE]
            /\ status' = [status EXCEPT ![w] = "Running"]
            /\ currentTaskIndex' = [currentTaskIndex EXCEPT ![w] = 0]
            /\ workflowStates' = SavedState("Running", 0)
            /\ calls' = [calls EXCEPT ![c] =
                   [IdleCall EXCEPT !.kind = "resume", !.w = w, !.pc = "saveStart",
                                    !.overlap = \E d \in Calls : calls[d].w = w /\ Active(d)]]
    /\ UNCHANGED <<isCancelled, context, taskStates, ctxs, taskVars, cfgVars>>

\* Workflow.resume up to its first await: throws unless Paused, else clears
\* the paused flag, status Running, saveStatus.
Resume(c, w) ==
    /\ FreeSlot(c, w)
    /\ IF ~ResumeAllowed(w)
       THEN /\ calls' = [calls EXCEPT ![c] =
                   [IdleCall EXCEPT !.kind = "resume", !.w = w, !.pc = "rejected",
                                    !.err = "NotPausedError"]]
            /\ UNCHANGED <<status, isPaused, workflowStates>>
       ELSE /\ isPaused' = [isPaused EXCEPT ![w] = FALSE]
            /\ status' = [status EXCEPT ![w] = "Running"]
            /\ workflowStates' = SavedState("Running", currentTaskIndex[w])
            /\ calls' = [calls EXCEPT ![c] =
                   [IdleCall EXCEPT !.kind = "resume", !.w = w, !.pc = "saveStart",
                                    !.overlap = \E d \in Calls : calls[d].w = w /\ Active(d)]]
    /\ UNCHANGED <<currentTaskIndex, isCancelled, context, taskStates, ctxs,
                   taskVars, cfgVars>>

\* Workflow.restoreState: a pure setter of status and currentTaskIndex
restoreState(w, state) ==
    /\ status' = [status EXCEPT ![w] = state.status]
    /\ currentTaskIndex' = [currentTaskIndex EXCEPT ![w] = state.currentTaskIndex]

\* FlowManager.restoreWorkflow: read the persisted state of the name and hand
\* it to restoreState of the registered instance
RestoreWorkflow(w) ==
    /\ IF workflowStates # NoState
       THEN restoreState(w, workflowStates)
       ELSE UNCHANGED <<status, currentTaskIndex>>
    /\ UNCHANGED <<isPaused, isCancelled, context, storeVars, ctxs, taskVars, calls, cfgVars>>

\* ------------------------------------------- Workflow: the stepping loop
\* `return this.context.getOutput()`, after setOutput(getAllTaskOutputs())
\* when collapse; r is the record of the returning call
Return(c, r, collapse) ==
    LET x == context[r.w] IN
    IF x = 0
    THEN /\ calls' = [calls EXCEPT ![c] = Settled(r, "rejected", "TypeError", NoOutput)]
         /\ UNCHANGED ctxs
    ELSE LET out == IF collapse THEN ctxs[x].taskOutputs ELSE ctxs[x].output
         IN /\ ctxs' = [ctxs EXCEPT ![x].output = out]
            /\ calls' = [calls EXCEPT ![c] = Settled(r, "returned", "none", out)]

\* variant: the loop never looks at the cancelled flag
CancelCheckMut(w) == FALSE

\* `if (this.isCancelled) break` at the top of an iteration
CancelCheck(w) == isCancelled[w]

\* `if (this.isPaused)` at the top of an iteration
PauseCheck(w) == isPaused[w]

\* variant: the code after the loop ignores the cancelled and paused flags
AfterLoopMut(c, r) ==
    /\ calls' = [calls EXCEPT ![c] = [r EXCEPT !.pc = "allFinishHooks",
                                                !.fired = Append(@, "onAllTasksFinish")]]
    /\ UNCHANGED ctxs

\* the code after the for loop
AfterLoop(c, r) ==
    IF ~isCancelled[r.w] /\ ~isPaused[r.w]
    THEN /\ calls' = [calls EXCEPT ![c] = [r EXCEPT !.pc = "allFinishHooks",
                                                     !.fired = Append(@, "onAllTasksFinish")]]
         /\ UNCHANGED ctxs
    ELSE Return(c, r, r.kind = "resume")

\* the head of one iteration of the for loop with currentTaskIndex = idx:
\* loop condition, cancel check, pause check, onTaskStart hooks fired
LoopTop(c, r, idx) ==
    LET w == r.w IN
    /\ currentTaskIndex' = [currentTaskIndex EXCEPT ![w] = idx]
    /\ IF idx < NumTasks /\ ~CancelCheck(w) /\ PauseCheck(w)
       THEN /\ workflowStates' = SavedState(status[w], idx)
            /\ calls' = [calls EXCEPT ![c] = [r EXCEPT !.pc = "savePaused"]]
            /\ UNCHANGED ctxs
       ELSE /\ UNCHANGED workflowStates
            /\ IF idx < NumTasks /\ ~CancelCheck(w)
               THEN /\ calls' = [calls EXCEPT ![c] =
                                   [r EXCEPT !.pc = "taskStartHooks", !.task = idx]]
                    /\ UNCHANGED ctxs
               ELSE AfterLoop(c, r)

\* the awaited saveStatus at the start of execute / resume has resolved:
\* execute fires onWorkflowStart, resume enters the loop
SaveStartDone(c) ==
    /\ calls[c].pc = "saveStart"
    /\ IF calls[c].kind = "execute"
       THEN /\ calls' = [calls EXCEPT ![c].pc = "wfStartHooks"]
            /\ UNCHANGED <<currentTaskIndex, workflowStates, ctxs>>
       ELSE LoopTop(c, calls[c], currentTaskIndex[calls[c].w])
    /\ UNCHANGED <<status, isPaused, isCancelled, context, taskStates, taskVars, cfgVars>>

\* ------------------------------------------------------------- Task.run
\* the synchronous head of Task.run(ctx) on task i: attempt = 0,
\* executeWithTimeout invokes the unit of work (the caller sets status Running)
RunStart(r, i, x) ==
    [r EXCEPT !.pc = "unitOfWork", !.task = i, !.ctx = x, !.attempt = 0, !.invoked = 1,
              !.ran = @ \cup {i}]

\* a direct call of Task.run on task i with the caller's TaskContext
RunTask(c, i) ==
    /\ FreeSlot(c, "original")
    /\ calls' = [calls EXCEPT ![c] =
                   RunStart([IdleCall EXCEPT !.kind = "run", !.w = "original"], i, 1)]
    /\ taskStatus' = [taskStatus EXCEPT ![i] = "Running"]
    /\ started' = [started EXCEPT ![i] = @ + 1]
    /\ UNCHANGED <<wfVars, storeVars, ctxs, cfgVars>>

\* the catch block of Task.run up to `await handleError`: attempt++
TaskCatch(r, e) == [r EXCEPT !.pc = "taskHandleError", !.attempt = @ + 1, !.err = e]

\* the unit of work resolves before the timer: the timer is cleared, the output
\* is recorded under the task's name, status Completed, saveTaskState
UnitOfWorkResolves(c) ==
    LET r == calls[c]  i == r.task IN
    /\ r.pc = "unitOfWork"
    /\ IF r.ctx = 0
       THEN \* context.setTaskOutput on an undefined context throws inside the try
            /\ calls' = [calls EXCEPT ![c] = TaskCatch(r, "TypeError")]
            /\ UNCHANGED <<ctxs, taskStatus, taskStates>>
       ELSE /\ ctxs' = setTaskOutput(r.ctx, i)
            /\ taskStatus' = [taskStatus EXCEPT ![i] = "Completed"]
            /\ taskStates' = [taskStates EXCEPT ![i] = "Completed"]
            /\ calls' = [calls EXCEPT ![c].pc = "taskSave"]
    /\ UNCHANGED <<wfVars, workflowStates, started, cfgVars>>

\* the unit of work rejects before the timer
UnitOfWorkRejects(c) ==
    /\ calls[c].pc = "unitOfWork"
    /\ calls' = [calls EXCEPT ![c] = TaskCatch(calls[c], "UnitOfWorkError")]
    /\ UNCHANGED <<wfVars, storeVars, ctxs, taskVars, cfgVars>>

\* variant: the timer rejects the attempt without touching the status
TimerFiresMut(c) ==
    /\ calls[c].pc = "unitOfWork"
    /\ timeout > 0
    /\ calls' = [calls EXCEPT ![c] =
                   [TaskCatch(calls[c], "TimeoutError") EXCEPT !.orphans = @ + 1]]
    /\ UNCHANGED <<wfVars, storeVars, ctxs, taskVars, cfgVars>>

\* the timer of executeWithTimeout fires first: status TimedOut, the attempt
\* is rejected, the invocation of the unit of work stays in flight
TimerFires(c) ==
    /\ calls[c].pc = "unitOfWork"
    /\ timeout > 0
    /\ taskStatus' = [taskStatus EXCEPT ![calls[c].task] = "TimedOut"]
    /\ calls' = [calls EXCEPT ![c] =
                   [TaskCatch(calls[c], "TimeoutError") EXCEPT !.orphans = @ + 1]]
    /\ UNCHANGED <<wfVars, storeVars, ctxs, started, cfgVars>>

\* an invocation left behind by a timed-out attempt settles: resolve / reject
\* of the already settled promise have no effect
OrphanSettles(c) ==
    /\ calls[c].orphans > 0
    /\ calls' = [calls EXCEPT ![c].orphans = @ - 1]
    /\ UNCHANGED <<wfVars, storeVars, ctxs, taskVars, cfgVars>>

\* handleError has resolved: retry (status Retrying, sleep) or fail
\* (status Failed, saveTaskState)
TaskHandleErrorDone(c) ==
    LET r == calls[c]  i == r.task IN
    /\ r.pc = "taskHandleError"
    /\ IF shouldRetry(r.attempt, retryCount)
       THEN /\ taskStatus' = [taskStatus EXCEPT ![i] = "Retrying"]
            /\ calls' = [calls EXCEPT ![c].pc = "retryDelay"]
            /\ UNCHANGED taskStates
       ELSE /\ taskStatus' = [taskStatus EXCEPT ![i] = "Failed"]
            /\ taskStates' = [taskStates EXCEPT ![i] = "Failed"]
            /\ calls' = [calls EXCEPT ![c].pc = "taskSaveFailed"]
    /\ UNCHANGED <<wfVars, workflowStates, ctxs, started, cfgVars>>

\* the retry sleep is over: the while loop invokes the unit of work again
RetryDelayDone(c) ==
    /\ calls[c].pc = "retryDelay"
    /\ calls' = [calls EXCEPT ![c].pc = "unitOfWork", ![c].invoked = @ + 1]
    /\ UNCHANGED <<wfVars, storeVars, ctxs, taskVars, cfgVars>>

\* saveTaskState after success has resolved: Task.run returns; in a workflow
\* the middleware runner returns and the onTaskFinish hooks are fired
TaskSaveDone(c) ==
    /\ calls[c].pc = "taskSave"
    /\ calls' = [calls EXCEPT ![c].pc =
                   IF calls[c].kind = "run" THEN "returned" ELSE "taskFinishHooks"]
    /\ UNCHANGED <<wfVars, storeVars, ctxs, taskVars, cfgVars>>

\* variant: the catch block of execute fires onWorkflowError right away
ThrowMut(r, e) ==
    IF r.kind = "execute"
    THEN [r EXCEPT !.pc = "wfErrorHooks", !.err = e, !.cause = e, !.handled = TRUE,
                   !.errorHooks = TRUE]
    ELSE IF r.kind = "run"
    THEN [r EXCEPT !.pc = "rejected", !.err = e]
    ELSE Settled(r, "rejected", e, NoOutput)

\* an error reaches the body of execute / resume: execute catches it and calls
\* the error collaborator; resume has no try / catch and rejects
Throw(r, e) ==
    IF r.kind = "execute"
    THEN [r EXCEPT !.pc = "handleError", !.err = e, !.cause = e, !.handled = TRUE]
    ELSE IF r.kind = "run"
    THEN [r EXCEPT !.pc = "rejected", !.err = e]
    ELSE Settled(r, "rejected", e, NoOutput)

\* saveTaskState after the final failure has resolved: Task.run throws
TaskSaveFailedDone(c) ==
    /\ calls[c].pc = "taskSaveFailed"
    /\ calls' = [calls EXCEPT ![c] = Throw(calls[c], calls[c].err)]
    /\ UNCHANGED <<wfVars, storeVars, ctxs, taskVars, cfgVars>>

\* ------------------------------------------- Workflow: hooks and saves
\* the awaited executeHooks resolves
HooksResolve(c) ==
    LET r == calls[c]  w == r.w IN
    /\ r.pc \in HookPcs
    /\ CASE r.pc = "wfStartHooks" ->
              /\ LoopTop(c, r, currentTaskIndex[w])
              /\ UNCHANGED <<status, taskVars>>
         [] r.pc = "taskStartHooks" ->
              \* runMiddlewareWithTask -> next() -> task.run(this.context)
              /\ calls' = [calls EXCEPT ![c] = RunStart(r, r.task, context[w])]
              /\ taskStatus' = [taskStatus EXCEPT ![r.task] = "Running"]
              /\ started' = [started EXCEPT ![r.task] = @ + 1]
              /\ UNCHANGED <<status, currentTaskIndex, workflowStates, ctxs>>
         [] r.pc = "taskFinishHooks" ->
              /\ workflowStates' = SavedState(status[w], currentTaskIndex[w])
              /\ calls' = [calls EXCEPT ![c].pc = "saveStep"]
              /\ UNCHANGED <<status, currentTaskIndex, ctxs, taskVars>>
         [] r.pc = "allFinishHooks" ->
              /\ calls' = [calls EXCEPT ![c].pc = "wfFinishHooks",
                                       ![c].fired = Append(@, "onWorkflowFinish")]
              /\ UNCHANGED <<status, currentTaskIndex, workflowStates, ctxs, taskVars>>
         [] r.pc = "wfFinishHooks" ->
              /\ status' = [status EXCEPT ![w] = "Completed"]
              /\ workflowStates' = SavedState("Completed", currentTaskIndex[w])
              /\ calls' = [calls EXCEPT ![c].pc = "saveCompleted"]
              /\ UNCHANGED <<currentTaskIndex, ctxs, taskVars>>
         [] r.pc = "wfErrorHooks" ->
              /\ status' = [status EXCEPT ![w] = "Failed"]
              /\ workflowStates' = SavedState("Failed", currentTaskIndex[w])
              /\ calls' = [calls EXCEPT ![c].pc = "saveFailed", ![c].savedFailed = TRUE]
              /\ UNCHANGED <<currentTaskIndex, ctxs, taskVars>>
    /\ UNCHANGED <<isPaused, isCancelled, context, taskStates, cfgVars>>

\* the awaited executeHooks rejects (some hook of the set rejected); a
\* rejection of the onWorkflowError hooks leaves the catch block of execute
\* with the error of the hook
HooksReject(c) ==
    LET r == calls[c] IN
    /\ r.pc \in HookPcs
    /\ calls' = [calls EXCEPT ![c] =
                   IF r.pc = "wfErrorHooks"
                   THEN Settled(r, "rejected", "ErrorHookError", NoOutput)
                   ELSE Throw(r, "HookError")]
    /\ UNCHANGED <<wfVars, storeVars, ctxs, taskVars, cfgVars>>

\* variant: the index advances by two after a step
SaveStepDoneMut(c) ==
    /\ calls[c].pc = "saveStep"
    /\ LoopTop(c, calls[c], currentTaskIndex[calls[c].w] + 2)
    /\ UNCHANGED <<status, isPaused, isCancelled, context, taskStates, taskVars, cfgVars>>

\* the saveStatus after onTaskFinish has resolved: currentTaskIndex++ and the
\* head of the next iteration
SaveStepDone(c) ==
    /\ calls[c].pc = "saveStep"
    /\ LoopTop(c, calls[c], currentTaskIndex[calls[c].w] + 1)
    /\ UNCHANGED <<status, isPaused, isCancelled, context, taskStates, taskVars, cfgVars>>

\* the saveStatus of the paused branch has resolved: return the current output
SavePausedDone(c) ==
    /\ calls[c].pc = "savePaused"
    /\ Return(c, calls[c], FALSE)
    /\ UNCHANGED <<wfVars, storeVars, taskVars, cfgVars>>

\* the saveStatus after status Completed has resolved: collapse the per-task
\* outputs into the output and return it
SaveCompletedDone(c) ==
    /\ calls[c].pc = "saveCompleted"
    /\ Return(c, calls[c], TRUE)
    /\ UNCHANGED <<wfVars, storeVars, taskVars, cfgVars>>

\* the catch block of execute: handleError has resolved, onWorkflowError fired
HandleErrorDone(c) ==
    /\ calls[c].pc = "handleError"
    /\ calls' = [calls EXCEPT ![c].pc = "wfErrorHooks", ![c].errorHooks = TRUE]
    /\ UNCHANGED <<wfVars, storeVars, ctxs, taskVars, cfgVars>>

\* the saveStatus after status Failed has resolved: rethrow
SaveFailedDone(c) ==
    /\ calls[c].pc = "saveFailed"
    /\ calls' = [calls EXCEPT ![c] = Settled(calls[c], "rejected", calls[c].err, NoOutput)]
    /\ UNCHANGED <<wfVars, storeVars, ctxs, taskVars, cfgVars>>

\* --------------------------------------- Task.run: the timers of attempts
\* what the timer bookkeeping leaves alone outside the engine
nonTimerVars == <<histVars, compVars, childVars, mgrVars, schedVars, backoffVars, waits, mwVars, evals, hookVars>>

\* setTimeout in executeWithTimeout: the attempt gets a timer when the task
\* has a timeout
setTimer(c) == [timers EXCEPT ![c].armed = timeout > 0]

clearTimeoutMut(c) ==
    [timers EXCEPT ![c] = [armed |-> FALSE,
                           stale |-> @.stale + (IF @.armed THEN 1 ELSE 0)]]

\* `if (timer) clearTimeout(timer)` in the then / catch callback of the unit
\* of work
clearTimeout(c) == [timers EXCEPT ![c].armed = FALSE]

\* a direct Task.run whose first attempt sets its timer
TimedRunTask(c, i) ==
    /\ RunTask(c, i)
    /\ timers' = setTimer(c)
    /\ UNCHANGED nonTimerVars

\* the unit of work resolves while the attempt is undecided
TimedResolves(c) ==
    /\ UnitOfWorkResolves(c)
    /\ timers' = clearTimeout(c)
    /\ UNCHANGED nonTimerVars

\* the unit of work rejects while the attempt is undecided
TimedRejects(c) ==
    /\ UnitOfWorkRejects(c)
    /\ timers' = clearTimeout(c)
    /\ UNCHANGED nonTimerVars

\* the callback of a timer runs: `this.status = TimedOut; reject(...)`.  The
\* timer of the undecided attempt rejects it; reject on the promise of an
\* attempt that is already decided has no effect, the status is set all the same
TimerCallback(c, stale) ==
    IF stale
    THEN /\ timers[c].stale > 0
         /\ calls[c].task >= 0
         /\ timers' = [timers EXCEPT ![c].stale = @ - 1]
         /\ taskStatus' = [taskStatus EXCEPT ![calls[c].task] = "TimedOut"]
         /\ UNCHANGED <<wfVars, storeVars, ctxs, started, calls, cfgVars, nonTimerVars>>
    ELSE /\ timers[c].armed
         /\ TimerFires(c)
         /\ timers' = [timers EXCEPT ![c].armed = FALSE]
         /\ UNCHANGED nonTimerVars

\* the retry sleep is over: the next executeWithTimeout sets a new timer
TimedRetry(c) ==
    /\ RetryDelayDone(c)
    /\ timers' = setTimer(c)
    /\ UNCHANGED nonTimerVars

\* ------------------------------------------------------------ FlowManager
\* what a manager method leaves alone outside the engine
nonMgrVars == <<histVars, compVars, childVars, schedVars, backoffVars, auxVars>>
engineState == <<wfVars, storeVars, ctxs, taskVars, calls, cfgVars>>

LookupMut(name) == IF workflows[name] = "none" THEN "original" ELSE workflows[name]

\* this.workflows.get(name): "none" stands for undefined
Lookup(name) == workflows[name]

\* the record of a manager call
ManagerCall(op, name, outcome) ==
    [op |-> op, name |-> name, outcome |-> outcome]

\* FlowManager.buildWorkflow: the workflow built is registered under its name,
\* replacing an instance registered before
BuildWorkflow(w) ==
    /\ workflows["flow"] # w
    /\ status[w] = "Pending"
    /\ workflows' = [workflows EXCEPT !["flow"] = w]
    /\ managerCall' = NoCall
    /\ UNCHANGED <<engineState, nonMgrVars>>

\* FlowManager.pauseWorkflow
PauseWorkflow(name) ==
    LET w == Lookup(name) IN
    /\ IF w = "none" THEN UNCHANGED engineState ELSE Pause(w)
    /\ managerCall' = ManagerCall("pause", name, "returned")
    /\ UNCHANGED <<workflows, nonMgrVars>>

\* FlowManager.resumeWorkflow: the promise of workflow.resume() is returned,
\* so the call throws when resume throws and is pending while resume runs
ResumeWorkflow(c, name) ==
    LET w == Lookup(name) IN
    /\ IF w = "none"
       THEN /\ c = <<"original", 1>>
            /\ UNCHANGED engineState
            /\ managerCall' = ManagerCall("resume", name, "returned")
       ELSE /\ Resume(c, w)
            /\ managerCall' = ManagerCall("resume", name,
                                  IF calls'[c].pc = "rejected" THEN "threw" ELSE "pending")
    /\ UNCHANGED <<workflows, nonMgrVars>>

\* FlowManager.cancelWorkflow
CancelWorkflow(name) ==
    LET w == Lookup(name) IN
    /\ IF w = "none" THEN UNCHANGED engineState ELSE Cancel(w)
    /\ managerCall' = ManagerCall("cancel", name, "returned")
    /\ UNCHANGED <<workflows, nonMgrVars>>

\* ------------------------------------------------------- BackoffStrategies
\* what a backoff strategy leaves alone
nonBackoffVars == <<engineVars, compVars, childVars, mgrVars, schedVars, auxVars>>

\* the values of TBackoffOptions.delay and TBackoffOptions.maxDelay tried;
\* NoMaxDelay stands for a maxDelay that is not provided
Delays == {0, 1, 3, 100}
MaxDelays == {NoMaxDelay, 0, 1, 3, 2000}

\* x || Infinity: a missing maxDelay and a maxDelay of 0 are both falsy
OrInfinity(x) == IF x = NoMaxDelay \/ x = 0 THEN Infinity ELSE x

\* Math.min(a, b) for a finite a
MathMin(a, b) == IF b = Infinity \/ a < b THEN a ELSE b

\* 2 ** k
RECURSIVE Pow2(_)
Pow2(k) == IF k = 0 THEN 1 ELSE 2 * Pow2(k - 1)

\* BackoffStrategyFactory.createStrategy with strategy EXPONENTIAL: the fields
\* of the ExponentialBackoffStrategy constructed
createStrategy(options) ==
    [initialDelay |-> options.delay, maxDelay |-> OrInfinity(options.maxDelay)]

\* ExponentialBackoffStrategy.getDelay
getDelay(n) == MathMin(initialDelay * Pow2(n - 1), maxDelay)

\* a call of getDelay
GetDelay(n) ==
    /\ lastAttempt' = n
    /\ lastDelay' = getDelay(n)
    /\ UNCHANGED <<backoffOptions, initialDelay, maxDelay, nonBackoffVars>>

\* ------------------------------------------- Task.run: the retry sleeps
\* what the retry decision leaves alone outside the engine
nonWaitVars == <<histVars, compVars, childVars, mgrVars, schedVars, backoffVars, timers, mwVars, evals, hookVars>>

retryAttemptMut(r) == r.attempt + 1

\* the argument of `this.retryPolicy.getDelay(attempt)`: the attempt counter
\* after the attempt++ of the catch block
retryAttempt(r) == r.attempt

\* `await new Promise((res) => setTimeout(res, delay))` with the delay that
\* RetryPolicy.getDelay hands on from the backoff strategy
sleep(r) == [attempt |-> retryAttempt(r), delay |-> getDelay(retryAttempt(r))]

\* handleError has resolved: the retry decision, and on a retry the sleep
RetryDecision(c) ==
    /\ TaskHandleErrorDone(c)
    /\ waits' = IF shouldRetry(calls[c].attempt, retryCount)
                THEN Append(waits, sleep(calls[c]))
                ELSE waits
    /\ UNCHANGED nonWaitVars

\* ---------------------------------------------------------- ScheduledTask
\* what a ScheduledTask method leaves alone
nonSchedVars == <<engineVars, compVars, childVars, mgrVars, backoffVars, auxVars>>

\* cron expressions, by whether node-cron accepts them
Expressions == {"valid", "invalid"}

\* the record of a start / stop / schedule call
ScheduleCall(op, e, outcome) == [op |-> op, name |-> e, outcome |-> outcome]

ScheduleMut(e) ==
    /\ cronExpression' = e
    /\ scheduleCall' = ScheduleCall("schedule", e, "returned")
    /\ jobExpression' = [id \in DOMAIN jobExpression |->
                             IF id = cronJob THEN e ELSE jobExpression[id]]
    /\ UNCHANGED <<cronJob, armed, jobs, firings, nonSchedVars>>

\* ScheduledTask.schedule: a pure setter of the expression
Schedule(e) ==
    /\ cronExpression' = e
    /\ scheduleCall' = ScheduleCall("schedule", e, "returned")
    /\ UNCHANGED <<cronJob, armed, jobs, jobExpression, firings, nonSchedVars>>

AlreadyStartedMut == FALSE

\* the guard of ScheduledTask.start
AlreadyStarted == cronJob # 0

\* ScheduledTask.start: warns and returns when a job is held; otherwise
\* cron.schedule creates a job from the expression stored at that moment and
\* arms its trigger, and the job is kept.  What
\* cron.schedule does with an expression it does not accept is up to the
\* library: it throws before a job exists, or it returns an armed job.
Start ==
    /\ UNCHANGED <<cronExpression, firings, nonSchedVars>>
    /\ IF AlreadyStarted
       THEN /\ scheduleCall' = ScheduleCall("start", cronExpression, "returned")
            /\ UNCHANGED <<cronJob, armed, jobs, jobExpression>>
       ELSE \/ /\ jobs < MaxJobs
               /\ jobs' = jobs + 1
               /\ cronJob' = jobs + 1
               /\ armed' = armed \cup {jobs + 1}
               /\ jobExpression' = Append(jobExpression, cronExpression)
               /\ scheduleCall' = ScheduleCall("start", cronExpression, "returned")
            \/ /\ cronExpression = "invalid"
               /\ scheduleCall' = ScheduleCall("start", cronExpression, "threw")
               /\ UNCHANGED <<cronJob, armed, jobs, jobExpression>>

\* ScheduledTask.stop: stops and drops the job held, or warns when none is
Stop ==
    /\ IF cronJob # 0
       THEN /\ armed' = armed \ {cronJob}
            /\ cronJob' = 0
       ELSE UNCHANGED <<cronJob, armed>>
    /\ scheduleCall' = ScheduleCall("stop", cronExpression, "returned")
    /\ UNCHANGED <<cronExpression, jobs, jobExpression, firings, nonSchedVars>>

\* the trigger of an armed job fires: its callback starts a run of the task on
\* a new TaskContext
TriggerFires(id) ==
    /\ id \in armed
    /\ firings < MaxFirings
    /\ firings' = firings + 1
    /\ scheduleCall' = NoCall
    /\ UNCHANGED <<cronExpression, cronJob, armed, jobs, jobExpression, nonSchedVars>>

\* ------------------------------------------- ParallelTask, ConditionalTask
\* Task.run of child j up to its first await: status Running, the unit of work
\* is invoked (no timeout, no middleware)
ChildStarted(f, j) == [f EXCEPT ![j] = "unitOfWork"]

\* variant: only the first child is started before Promise.all is awaited
ParallelRunMut ==
    /\ compKind = "parallel"
    /\ compPc = "idle"
    /\ compStatus' = "Running"
    /\ compPc' = "promiseAll"
    /\ childPc' = ChildStarted(childPc, 1)
    /\ childStatus' = [childStatus EXCEPT ![1] = "Running"]
    /\ childRan' = [childRan EXCEPT ![1] = @ + 1]
    /\ UNCHANGED <<compKind, compRet, condition, results, promiseAll,
                   childResult, childOutputs, order, nonCompVars>>

\* ParallelTask.run: status Running, then the unit of work maps every child to
\* an async function that calls its run; all of them start before Promise.all
\* is awaited
ParallelRun ==
    /\ compKind = "parallel"
    /\ compPc = "idle"
    /\ compStatus' = "Running"
    /\ compPc' = "promiseAll"
    /\ childPc' = [j \in Children |-> "unitOfWork"]
    /\ childStatus' = [j \in Children |-> "Running"]
    /\ childRan' = [j \in Children |-> childRan[j] + 1]
    /\ UNCHANGED <<compKind, compRet, condition, results, promiseAll,
                   childResult, childOutputs, order, nonCompVars>>

\* what the evaluation of the predicate leaves alone outside the composite task
nonCondVars == <<engineVars, mgrVars, schedVars, backoffVars, timers, waits, mwVars,
                 hookVars>>

ConditionalRunMut ==
    /\ compKind = "conditional"
    /\ compPc = "idle"
    /\ compStatus' = "Running"
    /\ compPc' = "child"
    /\ results' = <<>>
    /\ childPc' = ChildStarted(childPc, 1)
    /\ childStatus' = [childStatus EXCEPT ![1] = "Running"]
    /\ childRan' = [childRan EXCEPT ![1] = @ + 1]
    /\ UNCHANGED <<compKind, compRet, condition, promiseAll, childResult,
                   childOutputs, order, evals, nonCondVars>>

\* ConditionalTask.run: status Running, then the unit of work evaluates the
\* condition; when it holds the first child is run, otherwise the unit of work
\* returns undefined, which Task.run records as the task's output
ConditionalRun ==
    /\ compKind = "conditional"
    /\ compPc = "idle"
    /\ evals' = Append(evals, condition)
    /\ IF condition
       THEN /\ compStatus' = "Running"
            /\ compPc' = "child"
            /\ results' = <<>>
            /\ childPc' = ChildStarted(childPc, 1)
            /\ childStatus' = [childStatus EXCEPT ![1] = "Running"]
            /\ childRan' = [childRan EXCEPT ![1] = @ + 1]
            /\ UNCHANGED compRet
       ELSE /\ compStatus' = "Completed"
            /\ compPc' = "taskSave"
            /\ compRet' = Undefined
            /\ UNCHANGED <<results, childPc, childStatus, childRan>>
    /\ UNCHANGED <<compKind, condition, promiseAll, childResult, childOutputs,
                   order, nonCondVars>>

\* a child has changed the context: the predicate would now return the
\* opposite value
ConditionChanges ==
    /\ compKind = "conditional"
    /\ compPc = "child"
    /\ condition' = ~condition
    /\ UNCHANGED <<compKind, compPc, compStatus, compRet, results, promiseAll,
                   childVars, nonCompVars>>

\* the unit of work of child j resolves: Task.run sets the task output, status
\* Completed, and awaits saveTaskState
ChildUnitOfWorkResolves(j) ==
    /\ childPc[j] = "unitOfWork"
    /\ childOutputs' = [childOutputs EXCEPT ![j] = childResult[j]]
    /\ childStatus' = [childStatus EXCEPT ![j] = "Completed"]
    /\ childPc' = [childPc EXCEPT ![j] = "taskSave"]
    /\ UNCHANGED <<compVars, childResult, childRan, order, nonCompVars>>

\* the values array of Promise.all once the promise at position j has resolved
\* with v
PromiseAllResolvedMut(j, v) ==
    LET k == CHOOSE n \in Children : promiseAll[n] = NoValue /\ \A m \in 1 .. (n - 1) : promiseAll[m] # NoValue
    IN [promiseAll EXCEPT ![k] = v]

PromiseAllResolved(j, v) == [promiseAll EXCEPT ![j] = v]

\* saveTaskState of child j is done: its run returns the result.  In a
\* ParallelTask the async function at position j returns it, and once every
\* position has resolved Promise.all resolves with the values array, the unit
\* of work returns it and Task.run records it and awaits saveTaskState.  In a
\* ConditionalTask the result is pushed and the next child is run, or the
\* results are returned after the last child.
ChildSaveDone(j) ==
    /\ childPc[j] = "taskSave"
    /\ childPc' = IF compKind = "conditional" /\ j < NumChildren
                  THEN ChildStarted([childPc EXCEPT ![j] = "returned"], j + 1)
                  ELSE [childPc EXCEPT ![j] = "returned"]
    /\ order' = Append(order, j)
    /\ IF compKind = "parallel"
       THEN /\ promiseAll' = PromiseAllResolved(j, childResult[j])
            /\ IF \A n \in Children : promiseAll'[n] # NoValue
               THEN /\ compRet' = ListOf([n \in 1 .. NumChildren |-> promiseAll'[n]])
                    /\ compStatus' = "Completed"
                    /\ compPc' = "taskSave"
               ELSE UNCHANGED <<compRet, compStatus, compPc>>
            /\ UNCHANGED <<results, childStatus, childRan>>
       ELSE /\ results' = Append(results, childResult[j])
            /\ IF j < NumChildren
               THEN /\ childStatus' = [childStatus EXCEPT ![j + 1] = "Running"]
                    /\ childRan' = [childRan EXCEPT ![j + 1] = @ + 1]
                    /\ UNCHANGED <<compRet, compStatus, compPc>>
               ELSE /\ compRet' = ListOf(results')
                    /\ compStatus' = "Completed"
                    /\ compPc' = "taskSave"
                    /\ UNCHANGED <<childStatus, childRan>>
            /\ UNCHANGED promiseAll
    /\ UNCHANGED <<compKind, condition, childResult, childOutputs, nonCompVars>>

\* the unit of work of child j rejects: Task.run catches, counts the attempt
\* and awaits handleError
ChildUnitOfWorkRejects(j) ==
    /\ childPc[j] = "unitOfWork"
    /\ childPc' = [childPc EXCEPT ![j] = "taskHandleError"]
    /\ UNCHANGED <<compVars, childResult, childStatus, childOutputs, childRan,
                   order, nonCompVars>>

\* handleError of child j is done: a child has no retry options, so
\* shouldRetry is false: status Failed, saveTaskState
ChildHandleErrorDone(j) ==
    /\ childPc[j] = "taskHandleError"
    /\ ~shouldRetry(1, 0)
    /\ childStatus' = [childStatus EXCEPT ![j] = "Failed"]
    /\ childPc' = [childPc EXCEPT ![j] = "taskSaveFailed"]
    /\ UNCHANGED <<compVars, childResult, childOutputs, childRan, order, nonCompVars>>

\* saveTaskState of the failed child j is done: its run throws, the unit of
\* work of the composite task rejects (Promise.all with the first rejection),
\* and the composite task's Task.run catches and awaits handleError
ChildSaveFailedDone(j) ==
    /\ childPc[j] = "taskSaveFailed"
    /\ childPc' = [childPc EXCEPT ![j] = "rejected"]
    /\ compPc' = IF compPc \in {"child", "promiseAll"} THEN "taskHandleError" ELSE compPc
    /\ UNCHANGED <<compKind, compStatus, compRet, condition, results, promiseAll,
                   childResult, childStatus, childOutputs, childRan, order, nonCompVars>>

\* handleError of the composite task is done: it is constructed without retry
\* options, so shouldRetry is false: status Failed, saveTaskState
CompHandleErrorDone ==
    /\ compPc = "taskHandleError"
    /\ ~shouldRetry(1, 0)
    /\ compStatus' = "Failed"
    /\ compPc' = "taskSaveFailed"
    /\ UNCHANGED <<compKind, compRet, condition, results, promiseAll, childVars,
                   nonCompVars>>

\* saveTaskState of the failed composite task is done: its run throws
CompSaveFailedDone ==
    /\ compPc = "taskSaveFailed"
    /\ compPc' = "rejected"
    /\ UNCHANGED <<compKind, compStatus, compRet, condition, results, promiseAll,
                   childVars, nonCompVars>>

\* saveTaskState of the composite task is done: its run returns
CompSaveDone ==
    /\ compPc = "taskSave"
    /\ compPc' = "returned"
    /\ UNCHANGED <<compKind, compStatus, compRet, condition, results, promiseAll,
                   childVars, nonCompVars>>

\* ------------------------------- Workflow.execute: a ParallelTask as a step
\* the position of the ParallelTask in the task list of the workflow
ParallelStep == 0

\* the step of execute call c is inside task.run(this.context) of the
\* ParallelTask
InParallelStep(c) ==
    /\ calls[c].kind = "execute"
    /\ calls[c].pc = "unitOfWork"
    /\ calls[c].task = ParallelStep

\* the workflow's step has called run on the ParallelTask: its unit of work
\* starts every child on the workflow's context
StepRunsParallel(c) ==
    /\ InParallelStep(c)
    /\ ParallelRun

\* run of the ParallelTask has returned to the step: its output is recorded
\* under its name, and execute fires the onTaskFinish hooks
StepRunReturns(c) ==
    /\ InParallelStep(c)
    /\ compPc = "returned"
    /\ ctxs' = setTaskOutput(calls[c].ctx, ParallelStep)
    /\ taskStatus' = [taskStatus EXCEPT ![ParallelStep] = compStatus]
    /\ taskStates' = [taskStates EXCEPT ![ParallelStep] = compStatus]
    /\ calls' = [calls EXCEPT ![c].pc = "taskFinishHooks"]
    /\ UNCHANGED <<wfVars, workflowStates, started, cfgVars, histVars, extVars>>

\* run of the ParallelTask has thrown into the step: the catch block of execute
StepRunThrows(c) ==
    /\ InParallelStep(c)
    /\ compPc = "rejected"
    /\ taskStatus' = [taskStatus EXCEPT ![ParallelStep] = compStatus]
    /\ taskStates' = [taskStates EXCEPT ![ParallelStep] = compStatus]
    /\ calls' = [calls EXCEPT ![c] = Throw(calls[c], "UnitOfWorkError")]
    /\ UNCHANGED <<wfVars, workflowStates, ctxs, started, cfgVars, histVars, extVars>>

\* --------------------------------------------------- runMiddlewareWithTask
\* what a pass through the middleware chain leaves alone
nonMwVars == <<engineVars, compVars, childVars, mgrVars, schedVars, backoffVars,
               timers, waits, evals, hookVars>>

\* a middleware is given by the number of times it calls its continuation;
\* the lists of at most NumMiddleware middlewares
Middlewares == UNION {[1 .. n -> 0 .. MaxContinuations] : n \in 0 .. NumMiddleware}

\* what a pass logs: the part of middleware k before its first continuation
\* call, the part after its last, and the invocation of next() (k = 0); x is
\* the context handed over
Ran(part, k, x) == [part |-> part, mw |-> k, ctx |-> x]

\* runMiddlewareWithTask(options, context, next) up to the call of run(), or
\* of next() when there is no middleware: `let i = 0`
runMiddlewareWithTask(mws, x) ==
    IF Len(mws) > 0
    THEN [NoPass EXCEPT !.ctx = x, !.state = "run"]
    ELSE [NoPass EXCEPT !.ctx = x, !.state = "next", !.log = <<Ran("task", 0, x)>>]

runMut(p, mws) ==
    IF p.i < Len(mws)
    THEN LET k == Len(mws) - p.i
         IN [p EXCEPT !.i = @ + 1,
                      !.stack = Append(@, [mw |-> k, left |-> mws[k]]),
                      !.log = Append(@, Ran("before", k, p.ctx)),
                      !.state = "mw"]
    ELSE [p EXCEPT !.log = Append(@, Ran("task", 0, p.ctx)), !.state = "next"]

\* a call of the closure run(): `mw = middleware[i++]; await mw(context, run)`
\* enters the next middleware, and past the last one `await next()`
run(p, mws) ==
    IF p.i < Len(mws)
    THEN LET k == p.i + 1
         IN [p EXCEPT !.i = @ + 1,
                      !.stack = Append(@, [mw |-> k, left |-> mws[k]]),
                      !.log = Append(@, Ran("before", k, p.ctx)),
                      !.state = "mw"]
    ELSE [p EXCEPT !.log = Append(@, Ran("task", 0, p.ctx)), !.state = "next"]

\* the innermost middleware goes on: it calls its continuation once more, or
\* it returns, and `await mw(context, run)` of the run() that entered it is
\* over; the return of the outermost ends the pass
inMiddleware(p) ==
    LET n == Len(p.stack)
        t == p.stack[n]
    IN IF t.left > 0
       THEN [p EXCEPT !.stack[n].left = @ - 1, !.state = "run"]
       ELSE [p EXCEPT !.stack = SubSeq(@, 1, n - 1),
                      !.log = Append(@, Ran("after", t.mw, p.ctx)),
                      !.state = IF n = 1 THEN "done" ELSE "mw"]

\* `await next()` is over: back in the middleware that called run(), or at the
\* end of runMiddlewareWithTask when there is no middleware
afterNext(p) == [p EXCEPT !.state = IF p.stack = <<>> THEN "done" ELSE "mw"]

\* a pass around a task that resolves at once, one step at a time
ChainStart(x) ==
    /\ mw.state = "idle"
    /\ mw' = runMiddlewareWithTask(middleware, x)
    /\ UNCHANGED <<middleware, builtWith, workflowOptions, childMw, nonMwVars>>

ChainRun ==
    /\ mw.state = "run"
    /\ mw' = run(mw, middleware)
    /\ UNCHANGED <<middleware, builtWith, workflowOptions, childMw, nonMwVars>>

ChainMiddleware ==
    /\ mw.state = "mw"
    /\ mw' = inMiddleware(mw)
    /\ UNCHANGED <<middleware, builtWith, workflowOptions, childMw, nonMwVars>>

ChainNext ==
    /\ mw.state = "next"
    /\ mw' = afterNext(mw)
    /\ UNCHANGED <<middleware, builtWith, workflowOptions, childMw, nonMwVars>>

\* ------------------------------ Workflow.execute: the pass around a task
\* what a step of the workflow's pass leaves alone
nonStepVars == <<wfVars, storeVars, ctxs, cfgVars, histVars, compVars, childVars,
                 mgrVars, schedVars, backoffVars, timers, waits, evals, hookVars,
                 middleware, builtWith, workflowOptions, childMw>>

\* the pass of call c has moved to p: when it has called next(), task.run is
\* called on this.context (status Running, the unit of work is invoked); when
\* it is over, the onTaskFinish hooks are fired
Pass(c, p) ==
    LET r == calls[c]  w == r.w IN
    /\ mw' = p
    /\ IF p.state = "next"
       THEN /\ calls' = [calls EXCEPT ![c] = RunStart(r, r.task, context[w])]
            /\ taskStatus' = [taskStatus EXCEPT ![r.task] = "Running"]
            /\ started' = [started EXCEPT ![r.task] = @ + 1]
       ELSE /\ calls' = [calls EXCEPT ![c].pc =
                           IF p.state = "done" THEN "taskFinishHooks" ELSE "middleware"]
            /\ UNCHANGED taskVars
    /\ UNCHANGED nonStepVars

\* the onTaskStart hooks have resolved: runMiddlewareWithTask(this.options,
\* this.context, ...) is called
StepStart(c) ==
    /\ calls[c].pc = "taskStartHooks"
    /\ Pass(c, runMiddlewareWithTask(middleware, context[calls[c].w]))

\* a call of run() in the pass
StepRun(c) ==
    /\ calls[c].pc = "middleware"
    /\ mw.state = "run"
    /\ Pass(c, run(mw, middleware))

\* the innermost middleware of the pass goes on
StepMiddleware(c) ==
    /\ calls[c].pc = "middleware"
    /\ mw.state = "mw"
    /\ Pass(c, inMiddleware(mw))

\* saveTaskState after success has resolved: task.run returns and next() is
\* over
StepNext(c) ==
    /\ calls[c].pc = "taskSave"
    /\ mw.state = "next"
    /\ mw' = afterNext(mw)
    /\ calls' = [calls EXCEPT ![c].pc =
                   IF mw'.state = "done" THEN "taskFinishHooks" ELSE "middleware"]
    /\ UNCHANGED <<taskVars, nonStepVars>>

\* ------------------------------- ParallelTask: the pass around each child
\* the workflowOptions a ParallelTask is constructed with, for a builder or
\* manager whose workflow options hold the middleware list mws:
\* WorkflowBuilder.addParallelTasks passes this.options on,
\* FlowManager.createParallelTasks passes no options and the constructor takes
\* `workflowOptions || {}`
ParallelTaskOptions(how, mws) == IF how = "addParallelTasks" THEN mws ELSE <<>>

\* what a step of a child's pass leaves alone
nonChildPassVars == <<compKind, condition, results, childResult, childOutputs,
                      middleware, mw, builtWith, workflowOptions,
                      engineVars, mgrVars, schedVars, backoffVars, timers, waits, evals,
                      hookVars>>

\* the pass of child j has moved to p: when it has called next(), the child's
\* run is called (status Running, the unit of work is invoked); when it is
\* over, the async function at position j returns the child's result, and
\* Promise.all resolves once every position has
ChildPass(j, p) ==
    /\ childMw' = [childMw EXCEPT ![j] = p]
    /\ IF p.state = "next"
       THEN /\ childPc' = ChildStarted(childPc, j)
            /\ childStatus' = [childStatus EXCEPT ![j] = "Running"]
            /\ childRan' = [childRan EXCEPT ![j] = @ + 1]
            /\ UNCHANGED <<promiseAll, compRet, compStatus, compPc, order>>
       ELSE IF p.state = "done"
       THEN /\ childPc' = [childPc EXCEPT ![j] = "returned"]
            /\ order' = Append(order, j)
            /\ promiseAll' = PromiseAllResolved(j, childResult[j])
            /\ IF \A n \in Children : promiseAll'[n] # NoValue
               THEN /\ compRet' = ListOf([n \in 1 .. NumChildren |-> promiseAll'[n]])
                    /\ compStatus' = "Completed"
                    /\ compPc' = "taskSave"
               ELSE UNCHANGED <<compRet, compStatus, compPc>>
            /\ UNCHANGED <<childStatus, childRan>>
       ELSE /\ childPc' = [childPc EXCEPT ![j] = "middleware"]
            /\ UNCHANGED <<childStatus, childRan, promiseAll, compRet, compStatus,
                           compPc, order>>
    /\ UNCHANGED nonChildPassVars

\* ParallelTask.run: status Running, then the unit of work maps every child to
\* an async function that calls runMiddlewareWithTask(this.workflowOptions,
\* context, ...) around the child's run
ParallelRunMiddleware ==
    /\ compKind = "parallel"
    /\ compPc = "idle"
    /\ compStatus' = "Running"
    /\ compPc' = "promiseAll"
    /\ childMw' = [j \in Children |-> runMiddlewareWithTask(workflowOptions, 1)]
    /\ IF Len(workflowOptions) = 0
       THEN /\ childPc' = [j \in Children |-> "unitOfWork"]
            /\ childStatus' = [j \in Children |-> "Running"]
            /\ childRan' = [j \in Children |-> childRan[j] + 1]
       ELSE /\ childPc' = [j \in Children |-> "middleware"]
            /\ UNCHANGED <<childStatus, childRan>>
    /\ UNCHANGED <<compRet, promiseAll, order, nonChildPassVars>>

\* a call of run() in the pass of child j
ChildRun(j) ==
    /\ childPc[j] = "middleware"
    /\ childMw[j].state = "run"
    /\ ChildPass(j, run(childMw[j], workflowOptions))

\* the innermost middleware of the pass of child j goes on
ChildMiddleware(j) ==
    /\ childPc[j] = "middleware"
    /\ childMw[j].state = "mw"
    /\ ChildPass(j, inMiddleware(childMw[j]))

\* saveTaskState of child j is done: its run returns and next() is over
ChildNext(j) ==
    /\ childPc[j] = "taskSave"
    /\ childMw[j].state = "next"
    /\ ChildPass(j, afterNext(childMw[j]))

\* ------------------------------------------------------------ HookManager
\* what an executeHooks call leaves alone
nonHookVars == <<engineVars, compVars, childVars, mgrVars, schedVars, backoffVars,
                 timers, waits, mwVars, evals>>

\* this.hooks.get(hookType): the hooks registered under the type, in
\* registration order
Registered(t) == 1 .. hooks[t]

\* HookManager.executeHooks(hookType, ...): hooks.map calls every hook of the
\* type, in registration order, then Promise.all of their promises is awaited;
\* with no hook there is nothing to wait for
ExecuteHooks(t) ==
    /\ hooksCall.pc = "idle"
    /\ hookPc' = [hookPc EXCEPT ![t] =
                    [k \in HookSlots |-> IF k \in Registered(t) THEN "running" ELSE "idle"]]
    /\ hookStarts' = [k \in Registered(t) |-> <<t, k>>]
    /\ hooksCall' = [hookType |-> t,
                     pc |-> IF Registered(t) = {} THEN "resolved" ELSE "promiseAll"]
    /\ UNCHANGED <<hooks, nonHookVars>>

\* hook k of type t resolves: Promise.all resolves once every promise has
HookResolves(t, k) ==
    /\ hookPc[t][k] = "running"
    /\ hookPc' = [hookPc EXCEPT ![t][k] = "resolved"]
    /\ hooksCall' = IF /\ hooksCall.pc = "promiseAll"
                       /\ \A n \in Registered(t) : hookPc'[t][n] = "resolved"
                    THEN [hooksCall EXCEPT !.pc = "resolved"]
                    ELSE hooksCall
    /\ UNCHANGED <<hooks, hookStarts, nonHookVars>>

\* hook k of type t rejects: Promise.all rejects with the first rejection, and
\* so does the executeHooks call that awaits it
HookRejects(t, k) ==
    /\ hookPc[t][k] = "running"
    /\ hookPc' = [hookPc EXCEPT ![t][k] = "rejected"]
    /\ hooksCall' = IF hooksCall.pc = "promiseAll"
                    THEN [hooksCall EXCEPT !.pc = "rejected"]
                    ELSE hooksCall
    /\ UNCHANGED <<hooks, hookStarts, nonHookVars>>

\* -------------------------------------------------------- specifications
\* a step that is not observed by the history variables
Quiet(A) == A /\ UNCHANGED <<histVars, extVars>>

\* a step observed by the trace: the await point the stepping call has moved to
Traced(A) ==
    /\ A
    /\ LET moved == {c \in Calls : calls'[c].pc # calls[c].pc \/ calls'[c].task # calls[c].task}
       IN trace' = IF moved = {}
                   THEN trace
                   ELSE LET c == CHOOSE d \in moved : TRUE
                        IN Append(trace, [pc |-> calls'[c].pc, task |-> calls'[c].task])
    /\ UNCHANGED <<pauses, atCancel, extVars>>

\* pause() observed: the tasks whose Task.run is in flight when it takes effect
PauseTracked(w) ==
    /\ Pause(w)
    /\ pauses' = IF status[w] = "Running"
                 THEN [pauses EXCEPT ![w] = Append(@, InFlight(w))]
                 ELSE pauses
    /\ UNCHANGED <<trace, atCancel, extVars>>

\* cancel() observed: the per-task outputs held by the workflow's context when
\* it takes effect
CancelTracked(w) ==
    /\ Cancel(w)
    /\ atCancel' = IF CancelAllowed(w) /\ context[w] # 0
                   THEN ctxs[context[w]].taskOutputs
                   ELSE atCancel
    /\ UNCHANGED <<pauses, trace, extVars>>

\* cancel() observed by the trace: when it takes effect, the task whose
\* Task.run is in flight (-1 when none is)
CancelTraced(w) ==
    /\ Cancel(w)
    /\ trace' = IF CancelAllowed(w)
                THEN Append(trace, [pc |-> "cancel",
                                    task |-> IF InFlight(w) = {} THEN -1
                                             ELSE CHOOSE i \in InFlight(w) : TRUE])
                ELSE trace
    /\ UNCHANGED <<pauses, atCancel, extVars>>

First(w) == <<w, 1>>

\* Spec: one workflow instance under arbitrary execute / pause / resume /
\* cancel calls; units of work and hooks may fail
Next ==
    \/ \E c \in Calls : Quiet(Execute(c, "original"))
    \/ \E c \in Calls : Quiet(Resume(c, "original"))
    \/ Quiet(Pause("original"))
    \/ CancelTracked("original")
    \/ \E c \in Calls : Quiet(SaveStartDone(c))
    \/ \E c \in Calls : Quiet(HooksResolve(c))
    \/ \E c \in Calls : Quiet(HooksReject(c))
    \/ \E c \in Calls : Quiet(UnitOfWorkResolves(c))
    \/ \E c \in Calls : Quiet(UnitOfWorkRejects(c))
    \/ \E c \in Calls : Quiet(TaskHandleErrorDone(c))
    \/ \E c \in Calls : Quiet(RetryDelayDone(c))
    \/ \E c \in Calls : Quiet(TaskSaveDone(c))
    \/ \E c \in Calls : Quiet(TaskSaveFailedDone(c))
    \/ \E c \in Calls : Quiet(SaveStepDone(c))
    \/ \E c \in Calls : Quiet(SavePausedDone(c))
    \/ \E c \in Calls : Quiet(SaveCompletedDone(c))
    \/ \E c \in Calls : Quiet(HandleErrorDone(c))
    \/ \E c \in Calls : Quiet(SaveFailedDone(c))

Spec == Init /\ [][Next]_vars

\* SpecTask: one direct Task.run on a task with any retryCount and with or
\* without a timeout; every attempt may resolve, reject or time out
InitTask ==
    /\ InitCommon
    /\ ExtIdle
    /\ ctxs = <<EmptyContext>>
    /\ retryCount \in 0 .. MaxRetryCount
    /\ timeout \in {0, TimeoutMs}

NextTask ==
    \/ \E i \in Tasks : Quiet(RunTask(First("original"), i))
    \/ \E c \in Calls : Quiet(UnitOfWorkResolves(c))
    \/ \E c \in Calls : Quiet(UnitOfWorkRejects(c))
    \/ \E c \in Calls : Quiet(TimerFires(c))
    \/ \E c \in Calls : Quiet(OrphanSettles(c))
    \/ \E c \in Calls : Quiet(TaskHandleErrorDone(c))
    \/ \E c \in Calls : Quiet(RetryDelayDone(c))
    \/ \E c \in Calls : Quiet(TaskSaveDone(c))
    \/ \E c \in Calls : Quiet(TaskSaveFailedDone(c))

SpecTask == InitTask /\ [][NextTask]_vars

\* SpecTimeout: direct Task.run calls, one after the other on distinct tasks
\* that have a timeout and whose unit of work never settles; timers,
\* handleError, the retry sleep and saveTaskState always complete
InitTimeout ==
    /\ InitCommon
    /\ ExtIdle
    /\ ctxs = <<EmptyContext>>
    /\ retryCount \in 0 .. MaxRetryCount
    /\ timeout \in 1 .. TimeoutMs

NextTimeout ==
    \/ \E c \in Calls, i \in Tasks :
           /\ \A d \in Calls : calls[d].task # i /\ ~Active(d)
           /\ Quiet(RunTask(c, i))
    \/ \E c \in Calls : Quiet(TimerFires(c))
    \/ \E c \in Calls : Quiet(TaskHandleErrorDone(c))
    \/ \E c \in Calls : Quiet(RetryDelayDone(c))
    \/ \E c \in Calls : Quiet(TaskSaveFailedDone(c))

SpecTimeout ==
    /\ InitTimeout
    /\ [][NextTimeout]_vars
    /\ \A c \in Calls :
           /\ WF_vars(Quiet(TimerFires(c)))
           /\ WF_vars(Quiet(TaskHandleErrorDone(c)))
           /\ WF_vars(Quiet(RetryDelayDone(c)))
           /\ WF_vars(Quiet(TaskSaveFailedDone(c)))

\* SpecSeq: a single execute() stepped without pause or cancel; units of work
\* and hooks may fail; the trace records the await points in order
NextSeq ==
    \/ Traced(Execute(First("original"), "original"))
    \/ \E c \in Calls : Traced(SaveStartDone(c))
    \/ \E c \in Calls : Traced(HooksResolve(c))
    \/ \E c \in Calls : Traced(HooksReject(c))
    \/ \E c \in Calls : Traced(UnitOfWorkResolves(c))
    \/ \E c \in Calls : Traced(UnitOfWorkRejects(c))
    \/ \E c \in Calls : Traced(TaskHandleErrorDone(c))
    \/ \E c \in Calls : Traced(RetryDelayDone(c))
    \/ \E c \in Calls : Traced(TaskSaveDone(c))
    \/ \E c \in Calls : Traced(TaskSaveFailedDone(c))
    \/ \E c \in Calls : Traced(SaveStepDone(c))
    \/ \E c \in Calls : Traced(SaveCompletedDone(c))
    \/ \E c \in Calls : Traced(HandleErrorDone(c))
    \/ \E c \in Calls : Traced(SaveFailedDone(c))

SpecSeq == Init /\ [][NextSeq]_vars

\* SpecCancel: a single execute() with cancel() arriving at any point; units of
\* work may fail and be retried; no hook rejects; the trace records the await
\* points and the cancel
NextCancel ==
    \/ Traced(Execute(First("original"), "original"))
    \/ CancelTraced("original")
    \/ \E c \in Calls : Traced(SaveStartDone(c))
    \/ \E c \in Calls : Traced(HooksResolve(c))
    \/ \E c \in Calls : Traced(UnitOfWorkResolves(c))
    \/ \E c \in Calls : Traced(UnitOfWorkRejects(c))
    \/ \E c \in Calls : Traced(TaskHandleErrorDone(c))
    \/ \E c \in Calls : Traced(RetryDelayDone(c))
    \/ \E c \in Calls : Traced(TaskSaveDone(c))
    \/ \E c \in Calls : Traced(TaskSaveFailedDone(c))
    \/ \E c \in Calls : Traced(SaveStepDone(c))
    \/ \E c \in Calls : Traced(SaveCompletedDone(c))
    \/ \E c \in Calls : Traced(HandleErrorDone(c))
    \/ \E c \in Calls : Traced(SaveFailedDone(c))

SpecCancel == Init /\ [][NextCancel]_vars

\* no call on instance w is still running
Stopped(w) == \A c \in Calls : c[1] = w => ~Active(c)

\* SpecPause: one execute() of always-succeeding tasks, paused at arbitrary
\* points; resume() is called only once the previous call has returned; no
\* hook rejects
NextPause ==
    \/ Quiet(Execute(First("original"), "original"))
    \/ \E c \in Calls : Stopped("original") /\ Quiet(Resume(c, "original"))
    \/ PauseTracked("original")
    \/ \E c \in Calls : Quiet(SaveStartDone(c))
    \/ \E c \in Calls : Quiet(HooksResolve(c))
    \/ \E c \in Calls : Quiet(UnitOfWorkResolves(c))
    \/ \E c \in Calls : Quiet(TaskSaveDone(c))
    \/ \E c \in Calls : Quiet(SaveStepDone(c))
    \/ \E c \in Calls : Quiet(SavePausedDone(c))
    \/ \E c \in Calls : Quiet(SaveCompletedDone(c))

SpecPause == Init /\ [][NextPause]_vars

\* SpecOverlap: one execute() of always-succeeding tasks, with pause() and
\* resume() called at arbitrary points, also while a call is still running; no
\* hook rejects
NextOverlap ==
    \/ Quiet(Execute(First("original"), "original"))
    \/ \E c \in Calls : Quiet(Resume(c, "original"))
    \/ PauseTracked("original")
    \/ \E c \in Calls : Quiet(SaveStartDone(c))
    \/ \E c \in Calls : Quiet(HooksResolve(c))
    \/ \E c \in Calls : Quiet(UnitOfWorkResolves(c))
    \/ \E c \in Calls : Quiet(TaskSaveDone(c))
    \/ \E c \in Calls : Quiet(SaveStepDone(c))
    \/ \E c \in Calls : Quiet(SavePausedDone(c))
    \/ \E c \in Calls : Quiet(SaveCompletedDone(c))

SpecOverlap == Init /\ [][NextOverlap]_vars

\* the original instance is paused and its stepping loop has stopped
PausedAndStopped(w) == status[w] = "Paused" /\ Stopped(w)

\* SpecRestore: the original instance is executed and paused; while it is
\* paused and stopped its checkpoint is restored into the fresh instance of
\* the same name and task list; both instances are resumed
NextRestore ==
    \/ Quiet(Execute(First("original"), "original"))
    \/ PauseTracked("original")
    \/ \E c \in Calls : Quiet(Resume(c, "original"))
    \/ PausedAndStopped("original") /\ Quiet(RestoreWorkflow("fresh"))
    \/ \E c \in Calls : Quiet(Resume(c, "fresh"))
    \/ \E c \in Calls : Quiet(SaveStartDone(c))
    \/ \E c \in Calls : Quiet(HooksResolve(c))
    \/ \E c \in Calls : Quiet(UnitOfWorkResolves(c))
    \/ \E c \in Calls : Quiet(TaskHandleErrorDone(c))
    \/ \E c \in Calls : Quiet(RetryDelayDone(c))
    \/ \E c \in Calls : Quiet(TaskSaveDone(c))
    \/ \E c \in Calls : Quiet(TaskSaveFailedDone(c))
    \/ \E c \in Calls : Quiet(SaveStepDone(c))
    \/ \E c \in Calls : Quiet(SavePausedDone(c))
    \/ \E c \in Calls : Quiet(SaveCompletedDone(c))

SpecRestore == Init /\ [][NextRestore]_vars

\* the engine is not used
EngineIdle ==
    /\ InitCommon
    /\ ctxs = <<>>
    /\ retryCount = 0
    /\ timeout = 0

\* a composite task over children whose units of work resolve with any values
InitComp(kind) ==
    /\ compKind = kind
    /\ compPc = "idle"
    /\ compStatus = "Pending"
    /\ compRet = Undefined
    /\ condition \in (IF kind = "conditional" THEN BOOLEAN ELSE {FALSE})
    /\ results = <<>>
    /\ promiseAll = [j \in Children |-> NoValue]
    /\ childResult \in [Children -> ResultValues]
    /\ childPc = [j \in Children |-> "idle"]
    /\ childStatus = [j \in Children |-> "Pending"]
    /\ childOutputs = [j \in Children |-> NoValue]
    /\ childRan = [j \in Children |-> 0]
    /\ order = <<>>

\* SpecParallel: one run of a ParallelTask over always-succeeding children
\* that complete in any order
InitParallel ==
    EngineIdle /\ InitComp("parallel") /\ MgrIdle /\ SchedIdle /\ BackoffIdle /\ AuxIdle

NextParallel ==
    \/ ParallelRun
    \/ \E j \in Children : ChildUnitOfWorkResolves(j)
    \/ \E j \in Children : ChildSaveDone(j)
    \/ CompSaveDone

SpecParallel == InitParallel /\ [][NextParallel]_vars

\* SpecConditional: one run of a ConditionalTask whose condition holds or not;
\* the children's units of work may resolve or reject
InitConditional ==
    EngineIdle /\ InitComp("conditional") /\ MgrIdle /\ SchedIdle /\ BackoffIdle /\ AuxIdle

NextConditional ==
    \/ ConditionalRun
    \/ \E j \in Children : ChildUnitOfWorkResolves(j)
    \/ \E j \in Children : ChildUnitOfWorkRejects(j)
    \/ \E j \in Children : ChildHandleErrorDone(j)
    \/ \E j \in Children : ChildSaveDone(j)
    \/ \E j \in Children : ChildSaveFailedDone(j)
    \/ CompHandleErrorDone
    \/ CompSaveDone
    \/ CompSaveFailedDone

SpecConditional == InitConditional /\ [][NextConditional]_vars

\* at most one call on instance w is still running
AtMostOneActive(w) == Cardinality({d \in Calls : d[1] = w /\ Active(d)}) <= 1

\* SpecValidate: execute() calls, overlapping at most in pairs, on a workflow
\* with an input validator that resolves with any list of violations; tasks
\* and hooks succeed
NextValidate ==
    \/ \E c \in Calls : AtMostOneActive("original") /\ Quiet(ExecuteValidated(c, "original"))
    \/ \E c \in Calls, errors \in ErrorLists : Quiet(ValidatorReturns(c, errors))
    \/ \E c \in Calls : Quiet(SaveStartDone(c))
    \/ \E c \in Calls : Quiet(HooksResolve(c))
    \/ \E c \in Calls : Quiet(UnitOfWorkResolves(c))
    \/ \E c \in Calls : Quiet(TaskSaveDone(c))
    \/ \E c \in Calls : Quiet(SaveStepDone(c))
    \/ \E c \in Calls : Quiet(SaveCompletedDone(c))

SpecValidate == Init /\ [][NextValidate]_vars

\* SpecManager: a FlowManager on which the workflow named "flow" is built and
\* executed once; pauseWorkflow, resumeWorkflow and cancelWorkflow are called
\* with the registered and with a missing name, a paused workflow being
\* resumed only once its loop has stopped; tasks and hooks succeed
InitManager ==
    /\ InitCommon
    /\ ctxs = <<>>
    /\ retryCount = 0
    /\ timeout = 0
    /\ CompIdle /\ MgrIdle /\ SchedIdle /\ BackoffIdle /\ AuxIdle

\* a step of the engine, which is no call of the manager
Unmanaged(A) == A /\ managerCall' = NoCall /\ UNCHANGED <<workflows, nonMgrVars>>

NextManager ==
    \/ BuildWorkflow("original")
    \/ Lookup("flow") = "original" /\ Unmanaged(Execute(First("original"), "original"))
    \/ \E name \in Names : PauseWorkflow(name)
    \/ \E c \in Calls, name \in Names :
           /\ status["original"] = "Paused" => Stopped("original")
           /\ ResumeWorkflow(c, name)
    \/ \E name \in Names : CancelWorkflow(name)
    \/ \E c \in Calls : Unmanaged(SaveStartDone(c))
    \/ \E c \in Calls : Unmanaged(HooksResolve(c))
    \/ \E c \in Calls : Unmanaged(UnitOfWorkResolves(c))
    \/ \E c \in Calls : Unmanaged(TaskSaveDone(c))
    \/ \E c \in Calls : Unmanaged(SaveStepDone(c))
    \/ \E c \in Calls : Unmanaged(SavePausedDone(c))
    \/ \E c \in Calls : Unmanaged(SaveCompletedDone(c))

SpecManager == InitManager /\ [][NextManager]_vars

\* SpecSchedule: a ScheduledTask constructed with any expression, under any
\* sequence of start(), stop() and schedule() calls and trigger firings
InitSchedule ==
    /\ EngineIdle /\ CompIdle /\ MgrIdle /\ BackoffIdle /\ AuxIdle
    /\ cronExpression \in Expressions
    /\ cronJob = 0
    /\ armed = {}
    /\ jobs = 0
    /\ jobExpression = <<>>
    /\ firings = 0
    /\ scheduleCall = NoCall

NextSchedule ==
    \/ \E e \in Expressions : Schedule(e)
    \/ Start
    \/ Stop
    \/ \E id \in 1 .. MaxJobs : TriggerFires(id)

SpecSchedule == InitSchedule /\ [][NextSchedule]_vars

\* SpecBackoff: an exponential strategy created by the factory from any
\* options, asked for the delay of any attempt
InitBackoff ==
    /\ EngineIdle /\ CompIdle /\ MgrIdle /\ SchedIdle /\ AuxIdle
    /\ backoffOptions \in [delay : Delays, maxDelay : MaxDelays]
    /\ initialDelay = createStrategy(backoffOptions).initialDelay
    /\ maxDelay = createStrategy(backoffOptions).maxDelay
    /\ lastAttempt = 0
    /\ lastDelay = 0

NextBackoff == \E n \in 1 .. MaxAttempt : GetDelay(n)

SpecBackoff == InitBackoff /\ [][NextBackoff]_vars

\* SpecAgain: execute() is called again and again on one instance, each call
\* once the previous one has settled; pause() and cancel() arrive only while
\* the first call is running, so every later call is uninterrupted; tasks and
\* hooks succeed
NextAgain ==
    \/ \E c \in Calls : Stopped("original") /\ Quiet(Execute(c, "original"))
    \/ Active(First("original")) /\ Quiet(Pause("original"))
    \/ Active(First("original")) /\ Quiet(Cancel("original"))
    \/ \E c \in Calls : Quiet(SaveStartDone(c))
    \/ \E c \in Calls : Quiet(HooksResolve(c))
    \/ \E c \in Calls : Quiet(UnitOfWorkResolves(c))
    \/ \E c \in Calls : Quiet(TaskSaveDone(c))
    \/ \E c \in Calls : Quiet(SaveStepDone(c))
    \/ \E c \in Calls : Quiet(SavePausedDone(c))
    \/ \E c \in Calls : Quiet(SaveCompletedDone(c))

SpecAgain == Init /\ [][NextAgain]_vars

\* SpecRace: one direct Task.run on a task with any retryCount and with or
\* without a timeout; in every attempt the unit of work and the timer race
NextRace ==
    \/ \E i \in Tasks : TimedRunTask(First("original"), i)
    \/ \E c \in Calls : TimedResolves(c)
    \/ \E c \in Calls : TimedRejects(c)
    \/ \E c \in Calls, stale \in BOOLEAN : TimerCallback(c, stale)
    \/ \E c \in Calls : Quiet(OrphanSettles(c))
    \/ \E c \in Calls : Quiet(TaskHandleErrorDone(c))
    \/ \E c \in Calls : TimedRetry(c)
    \/ \E c \in Calls : Quiet(TaskSaveDone(c))
    \/ \E c \in Calls : Quiet(TaskSaveFailedDone(c))

SpecRace == InitTask /\ [][NextRace]_vars

\* SpecWait: one direct Task.run on a task with any retryCount, with or
\* without a timeout, and with exponential backoff options of any delay and
\* maxDelay
InitWait ==
    /\ InitCommon
    /\ CompIdle /\ MgrIdle /\ SchedIdle /\ AuxIdle
    /\ ctxs = <<EmptyContext>>
    /\ retryCount \in 0 .. MaxRetryCount
    /\ timeout \in {0, TimeoutMs}
    /\ backoffOptions \in [delay : Delays, maxDelay : MaxDelays]
    /\ initialDelay = createStrategy(backoffOptions).initialDelay
    /\ maxDelay = createStrategy(backoffOptions).maxDelay
    /\ lastAttempt = 0
    /\ lastDelay = 0

NextWait ==
    \/ \E i \in Tasks : Quiet(RunTask(First("original"), i))
    \/ \E c \in Calls : Quiet(UnitOfWorkResolves(c))
    \/ \E c \in Calls : Quiet(UnitOfWorkRejects(c))
    \/ \E c \in Calls : Quiet(TimerFires(c))
    \/ \E c \in Calls : Quiet(OrphanSettles(c))
    \/ \E c \in Calls : RetryDecision(c)
    \/ \E c \in Calls : Quiet(RetryDelayDone(c))
    \/ \E c \in Calls : Quiet(TaskSaveDone(c))
    \/ \E c \in Calls : Quiet(TaskSaveFailedDone(c))

SpecWait == InitWait /\ [][NextWait]_vars

\* SpecErr: a single execute() stepped without pause or cancel on tasks with
\* any retryCount, with or without a timeout; units of work may resolve,
\* reject or time out and hooks may reject; the trace records the await points
InitErr ==
    /\ InitCommon
    /\ ExtIdle
    /\ ctxs = <<>>
    /\ retryCount \in 0 .. WorkflowRetryCount
    /\ timeout \in {0, TimeoutMs}

NextErr ==
    \/ Traced(Execute(First("original"), "original"))
    \/ \E c \in Calls : Traced(SaveStartDone(c))
    \/ \E c \in Calls : Traced(HooksResolve(c))
    \/ \E c \in Calls : Traced(HooksReject(c))
    \/ \E c \in Calls : Traced(UnitOfWorkResolves(c))
    \/ \E c \in Calls : Traced(UnitOfWorkRejects(c))
    \/ \E c \in Calls : Traced(TimerFires(c))
    \/ \E c \in Calls : Traced(OrphanSettles(c))
    \/ \E c \in Calls : Traced(TaskHandleErrorDone(c))
    \/ \E c \in Calls : Traced(RetryDelayDone(c))
    \/ \E c \in Calls : Traced(TaskSaveDone(c))
    \/ \E c \in Calls : Traced(TaskSaveFailedDone(c))
    \/ \E c \in Calls : Traced(SaveStepDone(c))
    \/ \E c \in Calls : Traced(SaveCompletedDone(c))
    \/ \E c \in Calls : Traced(HandleErrorDone(c))
    \/ \E c \in Calls : Traced(SaveFailedDone(c))

SpecErr == InitErr /\ [][NextErr]_vars

\* SpecJoin: one run of a ParallelTask whose children's units of work may
\* resolve or reject, in any order
NextJoin ==
    \/ ParallelRun
    \/ \E j \in Children : ChildUnitOfWorkResolves(j)
    \/ \E j \in Children : ChildUnitOfWorkRejects(j)
    \/ \E j \in Children : ChildHandleErrorDone(j)
    \/ \E j \in Children : ChildSaveDone(j)
    \/ \E j \in Children : ChildSaveFailedDone(j)
    \/ CompHandleErrorDone
    \/ CompSaveDone
    \/ CompSaveFailedDone

SpecJoin == InitParallel /\ [][NextJoin]_vars

\* SpecFail: one execute() of a workflow whose first task is a ParallelTask
\* over children that may fail and that settle in any order; the other tasks
\* succeed, no hook rejects
InitFail ==
    /\ InitCommon
    /\ ctxs = <<>>
    /\ retryCount = 0
    /\ timeout = 0
    /\ InitComp("parallel") /\ MgrIdle /\ SchedIdle /\ BackoffIdle /\ AuxIdle

NextFail ==
    \/ Quiet(Execute(First("original"), "original"))
    \/ \E c \in Calls : Quiet(SaveStartDone(c))
    \/ \E c \in Calls : Quiet(HooksResolve(c))
    \/ \E c \in Calls : StepRunsParallel(c)
    \/ \E j \in Children : ChildUnitOfWorkResolves(j)
    \/ \E j \in Children : ChildUnitOfWorkRejects(j)
    \/ \E j \in Children : ChildHandleErrorDone(j)
    \/ \E j \in Children : ChildSaveDone(j)
    \/ \E j \in Children : ChildSaveFailedDone(j)
    \/ CompHandleErrorDone
    \/ CompSaveDone
    \/ CompSaveFailedDone
    \/ \E c \in Calls : StepRunReturns(c)
    \/ \E c \in Calls : StepRunThrows(c)
    \/ \E c \in Calls : calls[c].task # ParallelStep /\ Quiet(UnitOfWorkResolves(c))
    \/ \E c \in Calls : Quiet(TaskSaveDone(c))
    \/ \E c \in Calls : Quiet(SaveStepDone(c))
    \/ \E c \in Calls : Quiet(SaveCompletedDone(c))
    \/ \E c \in Calls : Quiet(HandleErrorDone(c))
    \/ \E c \in Calls : Quiet(SaveFailedDone(c))

SpecFail == InitFail /\ [][NextFail]_vars

\* SpecChain: one pass of runMiddlewareWithTask over any list of middlewares,
\* each of which calls its continuation any number of times, around a task
\* that resolves
InitChain ==
    /\ EngineIdle /\ CompIdle /\ MgrIdle /\ SchedIdle /\ BackoffIdle
    /\ TimersIdle /\ WaitsIdle /\ EvalsIdle /\ HooksIdle
    /\ middleware \in Middlewares
    /\ mw = NoPass
    /\ builtWith = "none"
    /\ workflowOptions = <<>>
    /\ childMw = [j \in Children |-> NoPass]

NextChain ==
    \/ \E x \in 1 .. 2 : ChainStart(x)
    \/ ChainRun
    \/ ChainMiddleware
    \/ ChainNext

SpecChain == InitChain /\ [][NextChain]_vars

\* SpecSkip: a single execute() of a workflow configured with any list of
\* middlewares, each of which calls its continuation any number of times;
\* no pause or cancel; units of work and hooks resolve
InitSkip ==
    /\ InitCommon
    /\ CompIdle /\ MgrIdle /\ SchedIdle /\ BackoffIdle /\ TimersIdle /\ WaitsIdle /\ EvalsIdle /\ HooksIdle
    /\ ctxs = <<>>
    /\ retryCount = WorkflowRetryCount
    /\ timeout = 0
    /\ middleware \in Middlewares
    /\ mw = NoPass
    /\ builtWith = "none"
    /\ workflowOptions = <<>>
    /\ childMw = [j \in Children |-> NoPass]

NextSkip ==
    \/ Quiet(Execute(First("original"), "original"))
    \/ \E c \in Calls : Quiet(SaveStartDone(c))
    \/ \E c \in Calls : calls[c].pc # "taskStartHooks" /\ Quiet(HooksResolve(c))
    \/ \E c \in Calls : StepStart(c)
    \/ \E c \in Calls : StepRun(c)
    \/ \E c \in Calls : StepMiddleware(c)
    \/ \E c \in Calls : Quiet(UnitOfWorkResolves(c))
    \/ \E c \in Calls : StepNext(c)
    \/ \E c \in Calls : Quiet(SaveStepDone(c))
    \/ \E c \in Calls : Quiet(SaveCompletedDone(c))

SpecSkip == InitSkip /\ [][NextSkip]_vars

\* SpecBuilt: one run of a ParallelTask over always-succeeding children, built
\* with WorkflowBuilder.addParallelTasks or with
\* FlowManager.createParallelTasks for a workflow whose middlewares call
\* their continuation once each
InitBuilt ==
    /\ EngineIdle /\ MgrIdle /\ SchedIdle /\ BackoffIdle /\ TimersIdle /\ WaitsIdle /\ EvalsIdle /\ HooksIdle
    /\ InitComp("parallel")
    /\ middleware \in UNION {[1 .. n -> {1}] : n \in 0 .. NumMiddleware}
    /\ mw = NoPass
    /\ builtWith \in {"addParallelTasks", "createParallelTasks"}
    /\ workflowOptions = ParallelTaskOptions(builtWith, middleware)
    /\ childMw = [j \in Children |-> NoPass]

NextBuilt ==
    \/ ParallelRunMiddleware
    \/ \E j \in Children : ChildRun(j)
    \/ \E j \in Children : ChildMiddleware(j)
    \/ \E j \in Children : ChildUnitOfWorkResolves(j)
    \/ \E j \in Children : ChildNext(j)
    \/ CompSaveDone

SpecBuilt == InitBuilt /\ [][NextBuilt]_vars

\* SpecOnce: one run of a ConditionalTask whose children's units of work may
\* resolve or reject and may change what the predicate would return
NextOnce ==
    \/ ConditionalRun
    \/ ConditionChanges
    \/ \E j \in Children : ChildUnitOfWorkResolves(j)
    \/ \E j \in Children : ChildUnitOfWorkRejects(j)
    \/ \E j \in Children : ChildHandleErrorDone(j)
    \/ \E j \in Children : ChildSaveDone(j)
    \/ \E j \in Children : ChildSaveFailedDone(j)
    \/ CompHandleErrorDone
    \/ CompSaveDone
    \/ CompSaveFailedDone

SpecOnce == InitConditional /\ [][NextOnce]_vars

\* SpecHooks: one executeHooks call on a HookManager with any number of hooks
\* registered under each hook type; every hook may resolve or reject
InitHooks ==
    /\ EngineIdle /\ CompIdle /\ MgrIdle /\ SchedIdle /\ BackoffIdle
    /\ TimersIdle /\ WaitsIdle /\ MwIdle /\ EvalsIdle
    /\ hooks \in [HookTypes -> 0 .. NumHooks]
    /\ NoHookRuns

NextHooks ==
    \/ \E t \in HookTypes : ExecuteHooks(t)
    \/ \E t \in HookTypes, k \in HookSlots : HookResolves(t, k)
    \/ \E t \in HookTypes, k \in HookSlots : HookRejects(t, k)

SpecHooks == InitHooks /\ [][NextHooks]_vars

\* ================================================================ claims
O == "original"
F == "fresh"

\* the calls made on the original instance, in order, and the first call made
\* on the fresh instance
Call1 == calls[<<O, 1>>]
Call2 == calls[<<O, 2>>]
FreshCall == calls[<<F, 1>>]

\* ------------------------------------------------------------------- C1
\* C1: a task with retryCount = k whose unit of work fails on every invocation
\* (no timeout configured) invokes it exactly k+1 times before run rejects, and
\* the task's status is then Failed.
C1_AttemptsAreRetryCountPlusOne ==
    \A c \in Calls :
        (calls[c].kind = "run" /\ calls[c].pc = "rejected" /\ timeout = 0)
            => /\ calls[c].invoked = retryCount + 1
               /\ taskStatus[calls[c].task] = "Failed"

\* ------------------------------------------------------------------- C2
\* execute() ran to its end and was never paused
Uninterrupted ==
    /\ Call1.kind = "execute" /\ Call1.pc = "returned"
    /\ pauses[O] = <<>>
    /\ Call2.kind = "none"

\* pause() took effect once, while the second task (index 1) was running;
\* resume() was called after execute() had returned, and has returned
PausedInTask2ThenResumed ==
    /\ Call1.kind = "execute" /\ Call1.pc = "returned"
    /\ pauses[O] = << {1} >>
    /\ Call2.kind = "resume" /\ ~Call2.overlap /\ Call2.pc = "returned"

\* C2: with always-succeeding tasks, pause() during task 2 and resume() after
\* execute has returned: execute plus resume start every task exactly once,
\* the final status is Completed and resume returns what an uninterrupted
\* execute returns (under every task's name the value set by its only run).
C2_PauseResumeEqualsUninterrupted ==
    /\ Uninterrupted => /\ Call1.ret = FullOutput
                        /\ status[O] = "Completed"
                        /\ \A i \in Tasks : started[i] = 1
    /\ PausedInTask2ThenResumed =>
           /\ Call2.ret = FullOutput
           /\ status[O] = "Completed"
           /\ \A i \in Tasks : started[i] = 1
           /\ Call1.ran \cap Call2.ran = {}
           /\ Call1.ran \cup Call2.ran = Tasks

C2_Witness == PausedInTask2ThenResumed /\ Call2.ret = FullOutput

HooksFiredFor(i) == \E c \in Calls : calls[c].pc = "taskStartHooks" /\ calls[c].task = i
RunningOn(i, x) == \E c \in Calls : calls[c].pc = "unitOfWork" /\ calls[c].task = i
                                     /\ calls[c].ctx = x

BothResumed ==
    /\ Call2.kind = "resume" /\ ~Call2.overlap /\ ~Active(<<O, 2>>)
    /\ Call2.err # "NotPausedError"
    /\ FreshCall.kind = "resume" /\ ~Active(<<F, 1>>)
    /\ FreshCall.err # "NotPausedError"
    /\ Len(pauses[O]) = 1

\* C4: the fresh instance given the persisted checkpoint by restoreState and
\* then resumed runs the same remaining tasks and ends in the same status as
\* the original paused instance when resumed.
C4_RestoredResumeEqualsOriginalResume ==
    BothResumed =>
        /\ FreshCall.ran = Call2.ran
        /\ status[F] = status[O]
        /\ FreshCall.pc = Call2.pc

\* ------------------------------------------------------------------- C5
\* C5: once the status is Completed, Failed or Cancelled no step changes it.
C5_TerminalStatusesAreFinal ==
    [][status[O] \in TerminalStatuses => status'[O] = status[O]]_vars

\* ------------------------------------------------------------------- C6
\* C6: resume() called when the status is not Paused rejects with the
\* invalid-state error, leaves status, currentTaskIndex, both flags and the
\* persisted checkpoint unchanged and starts no task.
C6_ResumeRejectedUnlessPaused ==
    [][\A c \in Calls :
          (calls[c].kind = "none" /\ calls'[c].kind = "resume" /\ status[calls'[c].w] # "Paused")
              => /\ calls'[c].pc = "rejected"
                 /\ calls'[c].err = "NotPausedError"
                 /\ UNCHANGED <<status, currentTaskIndex, isPaused, isCancelled,
                                workflowStates, started, taskStatus>>
                 /\ \A d \in Calls \ {c} : calls'[d] = calls[d]]_vars

\* a rejected resume() on a workflow that is not Paused
C6_Witness ==
    \E c \in Calls : /\ calls[c].kind = "resume"
                     /\ calls[c].err = "NotPausedError"
                     /\ status[O] # "Paused"

C9_TaskFailureHandledOnBothPaths ==
    \A c \in Calls :
        (calls[c].kind \in {"execute", "resume"} /\ calls[c].pc = "rejected"
            /\ calls[c].err = "UnitOfWorkError")
        => /\ calls[c].handled
           /\ calls[c].errorHooks
           /\ calls[c].savedFailed

\* ------------------------------------------------------------------ C10
\* the await point entered just before the k-th one
Prev(k) == trace[k - 1]

\* C10: in a workflow stepped without pause or cancel the n-th onTaskStart
\* firing is for task n-1; the task runs only after its onTaskStart hooks have
\* resolved, its onTaskFinish hooks fire only after it has finished, the
\* checkpoint write follows them, and the onTaskStart hooks of the next task
\* fire only after that write has resolved.
C10_StepsInListOrder ==
    \A k \in 1 .. Len(trace) :
        LET e == trace[k] IN
        /\ e.pc = "taskStartHooks" =>
               /\ e.task = Cardinality({j \in 1 .. (k - 1) : trace[j].pc = "taskStartHooks"})
               /\ k > 1
               /\ IF e.task = 0
                  THEN Prev(k).pc = "wfStartHooks"
                  ELSE Prev(k) = [pc |-> "saveStep", task |-> e.task - 1]
        /\ e.pc = "unitOfWork" =>
               /\ k > 1
               /\ Prev(k) \in {[pc |-> "taskStartHooks", task |-> e.task],
                               [pc |-> "retryDelay", task |-> e.task]}
        /\ e.pc = "taskFinishHooks" =>
               /\ k > 1
               /\ Prev(k) = [pc |-> "taskSave", task |-> e.task]
        /\ e.pc = "taskSave" =>
               /\ k > 1
               /\ Prev(k) = [pc |-> "unitOfWork", task |-> e.task]
        /\ e.pc = "saveStep" =>
               /\ k > 1
               /\ Prev(k) = [pc |-> "taskFinishHooks", task |-> e.task]

\* every task has been stepped and execute() has returned
C10_Witness ==
    /\ Call1.pc = "returned"
    /\ \A i \in Tasks : \E k \in 1 .. Len(trace) :
           trace[k] = [pc |-> "saveStep", task |-> i]

\* ------------------------------------------------------------------ C11
\* the number of invocations the retry policy allows a task whose every
\* attempt fails
AttemptsAllowed == IF retryCount > 1 THEN retryCount ELSE 1

\* C11: with a timeout and a unit of work that never settles, every attempt
\* ends by the timer with the timeout error and status TimedOut, the retry
\* policy counts it like any other failure, and run always ends by rejecting
\* with the timeout error and status Failed.
C11_TimeoutFailsTheRun ==
    /\ [][\A c \in Calls :
             (calls[c].pc = "unitOfWork" /\ calls'[c].pc # "unitOfWork")
                 => /\ calls'[c].pc = "taskHandleError"
                    /\ calls'[c].err = "TimeoutError"
                    /\ taskStatus'[calls[c].task] = "TimedOut"]_vars
    /\ [](\A c \in Calls :
             calls[c].pc = "rejected"
                 => /\ calls[c].err = "TimeoutError"
                    /\ taskStatus[calls[c].task] = "Failed"
                    /\ calls[c].invoked = AttemptsAllowed
                    /\ calls[c].orphans = calls[c].invoked)
    /\ \A c \in Calls : (calls[c].kind = "run") ~> (calls[c].pc = "rejected")

\* a run rejected by the timeout after more than one timed-out attempt
C11_Witness ==
    \E c \in Calls : /\ calls[c].kind = "run" /\ calls[c].pc = "rejected"
                     /\ calls[c].err = "TimeoutError"
                     /\ calls[c].orphans > 1
                     /\ taskStatus[calls[c].task] = "Failed"

\* ------------------------------------------------------------------ C12
\* the await points that follow the completion of Task.run on task i when the
\* loop stops after that step
AfterCompletion(i) ==
    << [pc |-> "taskFinishHooks", task |-> i],
       [pc |-> "saveStep", task |-> i],
       [pc |-> "returned", task |-> -1] >>

IsPrefix(a, b) == Len(a) <= Len(b) /\ a = SubSeq(b, 1, Len(a))

IsAwaitPoint(e) == e.pc # "cancel"

\* C12: cancel() arriving while task i is in flight interrupts nothing: Task.run
\* goes on (retries included), and when it completes its output is recorded,
\* its onTaskFinish hooks fire and the checkpoint is written, then the loop
\* stops: execute returns with task i+1 never started, no onAllTasksFinish /
\* onWorkflowFinish fired and the status left Cancelled.
C12_CancelIsCooperative ==
    \A k \in 1 .. Len(trace) :
        (trace[k].pc = "cancel" /\ trace[k].task >= 0) =>
            LET i == trace[k].task
                points == SelectSeq(SubSeq(trace, k - 1, Len(trace)), IsAwaitPoint)
            IN
            /\ k > 1 /\ trace[k - 1].task = i /\ trace[k - 1].pc \in RunPcs
            /\ \A j \in 2 .. Len(points) :
                   /\ points[j].pc \notin {"taskStartHooks", "allFinishHooks", "wfFinishHooks"}
                   /\ points[j - 1].pc \in RunPcs \ {"taskSave", "taskSaveFailed"}
                          => points[j].pc \in RunPcs /\ points[j].task = i
            /\ \A j \in 1 .. Len(points) :
                   points[j].pc = "taskSave" =>
                       IsPrefix(SubSeq(points, j + 1, Len(points)), AfterCompletion(i))
            /\ Call1.pc = "returned" =>
                   /\ ctxs[context[O]].taskOutputs[i] = 1
                   /\ \A j \in Tasks : started[j] = (IF j <= i THEN 1 ELSE 0)
                   /\ status[O] = "Cancelled"
                   /\ workflowStates = SavedState("Cancelled", i)

\* execute() has returned after a cancel that arrived while the second task
\* was in flight
C12_Witness ==
    /\ Call1.pc = "returned"
    /\ \E k \in 1 .. Len(trace) : trace[k] = [pc |-> "cancel", task |-> 1]
    /\ started[2] = 0

\* C13: a ParallelTask over N always-succeeding children returns a list of N
\* results whose position j holds the result of the j-th supplied child, in
\* whatever order the children complete.
C13_ParallelResultsInSuppliedOrder ==
    (compKind = "parallel" /\ compPc = "returned")
        => /\ ~compRet.undef
           /\ Len(compRet.list) = NumChildren
           /\ \A j \in Children : compRet.list[j] = childResult[j]

\* a ParallelTask has returned whose children completed last-supplied first
\* and did not all produce the same value
C13_Witness ==
    /\ compKind = "parallel"
    /\ compPc = "returned"
    /\ order = [k \in 1 .. NumChildren |-> NumChildren + 1 - k]
    /\ childResult[1] # childResult[NumChildren]

\* C14: a ConditionalTask whose predicate returns false invokes none of its
\* children: no child's unit of work runs, no child's status leaves Pending
\* and no child output is recorded in the context.
C14_FalseConditionRunsNoChild ==
    (compKind = "conditional" /\ ~condition)
        => \A j \in Children :
               /\ childRan[j] = 0
               /\ childPc[j] = "idle"
               /\ childStatus[j] = "Pending"
               /\ childOutputs[j] = NoValue

\* a ConditionalTask whose predicate returned false has run and returned
C14_Witness ==
    /\ compKind = "conditional"
    /\ ~condition
    /\ compPc = "returned"
    /\ compStatus = "Completed"
    /\ compRet = Undefined

\* string m occurs in string text
Carries(text, m) ==
    \E k \in 0 .. (Len(text) - Len(m)) : SubSeq(text, k + 1, k + Len(m)) = m

\* C15: when the input validator returns a non-empty list of violations,
\* execute rejects with an error that carries every violation message; from
\* its invocation to the rejection the call waits for nothing but the
\* validator, so it fires no hook and starts no task, and neither of its two
\* steps changes the workflow status.
C15_ViolationsRejectBeforeAnyEffect ==
    [][\A c \in Calls :
          /\ (calls[c].pc = "idle" /\ calls'[c].pc # "idle")
                 => /\ calls'[c].pc = "validator"
                    /\ status' = status
                    /\ taskVars' = taskVars
                    /\ storeVars' = storeVars
          /\ (calls[c].pc = "validator" /\ calls'[c].pc # "validator")
                 => IF calls'[c].errors # <<>>
                    THEN /\ calls'[c].pc = "rejected"
                         /\ calls'[c].err = "Error"
                         /\ \A k \in 1 .. Len(calls'[c].errors) :
                                Carries(calls'[c].message, calls'[c].errors[k])
                         /\ calls'[c].ran = {}
                         /\ status' = status
                         /\ taskVars' = taskVars
                         /\ storeVars' = storeVars
                    ELSE calls'[c].pc = "saveStart"]_vars

\* an execute was rejected for two different violations while an earlier
\* execute of the same workflow was running a task
C15_Witness ==
    /\ Call2.pc = "rejected"
    /\ Len(Call2.errors) = 2
    /\ Call2.errors[1] # Call2.errors[2]
    /\ Call1.pc = "unitOfWork"
    /\ status[O] = "Running"

C17_AtMostOneTriggerArmed ==
    /\ [](Cardinality(armed) <= 1)
    /\ [][LET m == scheduleCall' IN
            /\ (m.op = "start" /\ armed # {}) => armed' = armed
            /\ (m.op = "stop" /\ armed = {}) =>
                   /\ m.outcome = "returned"
                   /\ <<cronExpression, cronJob, armed, jobs>>' = <<cronExpression, cronJob, armed, jobs>>
            /\ (m.op = "stop" /\ armed # {}) => armed' = {}
            /\ m.op = "schedule" => armed' = armed]_vars

\* start() was called while the trigger of the second job was armed
C17_Witness ==
    /\ scheduleCall.op = "start"
    /\ scheduleCall.outcome = "returned"
    /\ jobs = 2
    /\ armed = {2}
    /\ cronJob = 2
    /\ firings > 0

\* the smaller of two finite numbers
Min(a, b) == IF a < b THEN a ELSE b

\* C18: getDelay(n) equals min(initial * 2^(n-1), maxDelay) for every attempt
\* n >= 1 and every configured initial and maxDelay.
C18_DelayIsCappedExponential ==
    (lastAttempt >= 1 /\ backoffOptions.maxDelay # NoMaxDelay)
        => lastDelay = Min(backoffOptions.delay * Pow2(lastAttempt - 1),
                           backoffOptions.maxDelay)

\* the await points from which a call leaves the for loop without having
\* completed the workflow: the loop condition, or the cancel check, ends it
LoopExitPcs == {"saveStart", "wfStartHooks", "saveStep"}

\* C19: the stepping loop of resume behaves like the loop of execute; in
\* particular both return the same kind of output: when the loop is left on a
\* cancel (or on a pause seen after the last task) the call returns the
\* context's output as it stands, without collapsing the per-task outputs
\* into it, in a resume as in an execute.
C19_ResumeLoopLikeExecuteLoop ==
    [][\A c \in Calls :
          LET r == calls[c]
              x == context[r.w]
          IN (/\ r.kind \in {"execute", "resume"}
              /\ r.pc \in LoopExitPcs
              /\ calls'[c].pc = "returned")
             => /\ calls'[c].ret = ctxs[x].output
                /\ ctxs'[x].output = ctxs[x].output]_vars

\* C20: every call of execute, also one on an instance that was executed,
\* paused or cancelled before, iterates the task list from index 0 on a fresh
\* context: an uninterrupted call that has returned has run every task and
\* returns an output holding the result of each.
C20_EveryExecuteRunsEveryTask ==
    \A c \in Calls :
        (c[1] = O /\ c[2] > 1 /\ calls[c].kind = "execute" /\ calls[c].pc = "returned")
        => /\ calls[c].ran = Tasks
           /\ calls[c].ret = FullOutput

\* C21: each attempt has exactly one outcome.  No timer of a decided attempt
\* stays set, and the status is TimedOut only while the error of a timer that
\* won is being handled; the step that decides an attempt is a resolution
\* (status Completed), a rejection by the unit of work (status untouched) or
\* a timeout (status TimedOut), and leaves no timer set; a unit of work that
\* settles after its attempt timed out changes neither the call's position
\* and error nor the status or the recorded outputs.
C21_OneOutcomePerAttempt ==
    /\ [](\A c \in Calls :
             /\ timers[c].stale = 0
             /\ timers[c].armed => calls[c].pc = "unitOfWork"
             /\ (calls[c].kind = "run" /\ calls[c].task >= 0
                    /\ taskStatus[calls[c].task] = "TimedOut")
                   => (calls[c].pc = "taskHandleError" /\ calls[c].err = "TimeoutError"))
    /\ [][\A c \in Calls :
             LET r == calls[c]  q == calls'[c]  i == r.task IN
             /\ (r.pc = "unitOfWork" /\ q.pc # "unitOfWork") =>
                    /\ ~timers'[c].armed
                    /\ \/ /\ q.pc = "taskSave"
                          /\ taskStatus'[i] = "Completed"
                          /\ ctxs'[r.ctx].taskOutputs[i] = ctxs[r.ctx].taskOutputs[i] + 1
                       \/ /\ q.pc = "taskHandleError"
                          /\ q.err = "UnitOfWorkError"
                          /\ taskStatus' = taskStatus
                          /\ ctxs' = ctxs
                       \/ /\ q.pc = "taskHandleError"
                          /\ q.err = "TimeoutError"
                          /\ taskStatus'[i] = "TimedOut"
                          /\ ctxs' = ctxs
             /\ q.orphans < r.orphans =>
                    /\ q.pc = r.pc /\ q.err = r.err /\ q.attempt = r.attempt
                    /\ taskStatus' = taskStatus
                    /\ ctxs' = ctxs]_vars

\* the task completed in a retry while the unit of work of an attempt that
\* had timed out was still in flight
C21_Witness ==
    /\ timeout > 0
    /\ Call1.pc = "taskSave"
    /\ Call1.orphans > 0
    /\ taskStatus[Call1.task] = "Completed"
    /\ ~timers[<<O, 1>>].armed

\* the status changes the state machine of a task allows
StatusSteps ==
    {<<"Pending", "Running">>,
     <<"Running", "Completed">>, <<"Running", "Failed">>,
     <<"Running", "TimedOut">>, <<"Running", "Retrying">>,
     <<"TimedOut", "Retrying">>, <<"TimedOut", "Failed">>,
     <<"Retrying", "Running">>}

\* C22: the status of a task changes only along Pending -> Running,
\* Running -> Completed | Failed | TimedOut | Retrying, TimedOut -> Retrying |
\* Failed and Retrying -> Running, and it is Running whenever the unit of work
\* of the current attempt is executing and has not timed out.
C22_StatusFollowsStateMachine ==
    /\ [](\A c \in Calls :
             (calls[c].kind = "run" /\ calls[c].pc = "unitOfWork")
                 => taskStatus[calls[c].task] = "Running")
    /\ [][\A i \in Tasks :
             taskStatus'[i] # taskStatus[i]
                 => <<taskStatus[i], taskStatus'[i]>> \in StatusSteps]_vars

\* C23: the retry sleeps of a Task.run use the backoff delays in attempt
\* order numbered from 1: the j-th sleep is getDelay(j); there is one sleep
\* per retry, and none after the final failed attempt.
C23_RetryWaitsUseDelaysFromOne ==
    LET r == Call1 IN
    /\ \A j \in 1 .. Len(waits) : waits[j] = [attempt |-> j, delay |-> getDelay(j)]
    /\ r.pc \in {"unitOfWork", "retryDelay", "taskSave", "returned"}
          => Len(waits) = r.attempt
    /\ r.pc = "taskHandleError" => Len(waits) = r.attempt - 1
    /\ r.pc \in {"taskSaveFailed", "rejected"}
          => /\ Len(waits) = r.attempt - 1
             /\ ~shouldRetry(r.attempt, retryCount)

\* a task failed for good after two retries whose sleeps differ
C23_Witness ==
    /\ Call1.pc = "rejected"
    /\ Len(waits) = 2
    /\ waits[1].delay < waits[2].delay

\* C24: every failed attempt of a task (rejection or timeout) is followed by
\* exactly one handleError call, which comes before the retry-or-fail
\* decision of that attempt; a task failure that reaches the execute loop is
\* followed by one further handleError call of the workflow, which comes
\* before the onWorkflowError hooks.
C24_HandleErrorOncePerFailure ==
    /\ [](\A k \in 1 .. Len(trace) :
             LET e == trace[k] IN
             /\ e.pc = "taskHandleError"
                   => k > 1 /\ trace[k - 1].pc = "unitOfWork" /\ trace[k - 1].task = e.task
             /\ e.pc \in {"retryDelay", "taskSaveFailed"}
                   => k > 1 /\ trace[k - 1].pc = "taskHandleError" /\ trace[k - 1].task = e.task
             /\ e.pc = "wfErrorHooks" => k > 1 /\ trace[k - 1].pc = "handleError"
             /\ (e.pc = "unitOfWork" /\ k < Len(trace))
                   => trace[k + 1].pc \in {"taskSave", "taskHandleError"}
             /\ (e.pc = "taskSaveFailed" /\ k < Len(trace))
                   => /\ trace[k + 1].pc = "handleError"
                      /\ k + 1 < Len(trace) => trace[k + 2].pc = "wfErrorHooks")
    /\ [][\A c \in Calls :
             LET r == calls[c]  q == calls'[c] IN
             /\ (r.pc = "unitOfWork" /\ q.pc \notin {"unitOfWork", "taskSave"})
                   => q.pc = "taskHandleError" /\ q.attempt = r.attempt + 1
             /\ (r.pc # "taskHandleError" /\ q.pc = "taskHandleError")
                   => r.pc = "unitOfWork"
             /\ (r.pc = "taskHandleError" /\ q.pc # "taskHandleError")
                   => /\ q.pc \in {"retryDelay", "taskSaveFailed"}
                      /\ q.attempt = r.attempt
                      /\ taskStatus'[r.task] \in {"Retrying", "Failed"}
             /\ (r.task >= 0 /\ taskStatus'[r.task] # taskStatus[r.task]
                    /\ taskStatus'[r.task] \in {"Retrying", "Failed"})
                   => r.pc = "taskHandleError"]_vars

\* a task whose first attempt timed out and whose second was rejected failed,
\* and the workflow's own handleError has been followed by onWorkflowError
C24_Witness ==
    /\ timeout > 0
    /\ Call1.pc = "wfErrorHooks"
    /\ Call1.attempt = 2
    /\ Call1.err = "UnitOfWorkError"
    /\ Call1.orphans > 0

\* pcs of a composite task whose unit of work has rejected
CompFailedPcs == {"taskHandleError", "taskSaveFailed", "rejected"}

\* C25: ParallelTask.run starts every child before any child completes,
\* resolves only after every child has resolved, and rejects as soon as the
\* first child rejects; the rejection does not cancel the siblings, which go
\* on as before and record their outputs in the shared context.
C25_ParallelStartsAllJoinsAll ==
    /\ []((\E j \in Children : childPc[j] \notin {"idle", "unitOfWork"})
             => \A n \in Children : childRan[n] = 1)
    /\ [](compPc \in {"taskSave", "returned"}
             => \A n \in Children : childPc[n] = "returned" /\ childOutputs[n] = childResult[n])
    /\ [](compPc \in CompFailedPcs <=> \E j \in Children : childPc[j] = "rejected")
    /\ [][\A j \in Children :
             /\ (childPc[j] # "rejected" /\ childPc'[j] = "rejected")
                   => /\ compPc' \in CompFailedPcs
                      /\ compPc = "promiseAll" => compPc' = "taskHandleError"
                      /\ \A n \in Children \ {j} :
                             /\ childPc'[n] = childPc[n]
                             /\ childStatus'[n] = childStatus[n]
                             /\ childOutputs'[n] = childOutputs[n]
             /\ (childPc[j] = "unitOfWork" /\ childPc'[j] = "taskSave")
                   => /\ childOutputs'[j] = childResult[j]
                      /\ childStatus'[j] = "Completed"]_vars

\* the ParallelTask has rejected on its first child while the other children
\* were still running; they completed afterwards and recorded their outputs
C25_Witness ==
    /\ compKind = "parallel"
    /\ compPc = "rejected"
    /\ compStatus = "Failed"
    /\ childPc[1] = "rejected"
    /\ order = [k \in 1 .. (NumChildren - 1) |-> k + 1]
    /\ \A n \in Children \ {1} :
           childPc[n] = "returned" /\ childOutputs[n] = childResult[n]

\* the number of times pass p has entered middleware k
Entered(p, k) == Cardinality({n \in 1 .. Len(p.log) : p.log[n].part = "before" /\ p.log[n].mw = k})

\* C26: in a workflow configured with a non-empty middleware list, every child
\* of a ParallelTask runs inside its own pass through the full chain: each
\* middleware is entered once per child before the child's unit of work is
\* invoked, whether the ParallelTask was built with
\* WorkflowBuilder.addParallelTasks or with FlowManager.createParallelTasks.
C26_ParallelChildrenGoThroughMiddleware ==
    (compKind = "parallel" /\ Len(middleware) > 0)
        => \A j \in Children :
               childRan[j] > 0
                   => \A k \in 1 .. Len(middleware) : Entered(childMw[j], k) = 1

\* pcs of a child's Task.run that has failed
ChildFailedPcs == {"taskHandleError", "taskSaveFailed", "rejected"}

\* C27: ConditionalTask.run evaluates its predicate exactly once per run call,
\* whatever the children do to the context; when it returned true the
\* children run strictly one after another in list order (child j+1 starts
\* only after child j has resolved), the list returned holds their results in
\* that order, and a child that rejects keeps all later children from
\* starting and makes the conditional task fail.
C27_ConditionalOnceThenSequential ==
    compKind = "conditional" =>
        /\ Len(evals) = (IF compPc = "idle" THEN 0 ELSE 1)
        /\ \A j \in Children :
               /\ childRan[j] <= 1
               /\ childRan[j] = 1 => evals = <<TRUE>>
               /\ (j > 1 /\ childRan[j] = 1) => childPc[j - 1] = "returned"
               /\ childPc[j] \in ChildFailedPcs
                     => \A n \in Children : n > j => childRan[n] = 0 /\ childPc[n] = "idle"
               /\ childPc[j] = "rejected" => compPc \in CompFailedPcs
        /\ \A k \in 1 .. Len(order) : order[k] = k
        /\ compPc = "rejected" => compStatus = "Failed"
        /\ (compPc = "returned" /\ evals = <<TRUE>>)
              => /\ compRet = ListOf([j \in 1 .. NumChildren |-> childResult[j]])
                 /\ \A j \in Children : childPc[j] = "returned"
        /\ (compPc \in {"taskSave", "returned"} /\ evals = <<FALSE>>) => compRet = Undefined

\* a ConditionalTask has returned the results of all its children although
\* its predicate, true when the run began, would have returned false later
C27_Witness ==
    /\ compKind = "conditional"
    /\ compPc = "returned"
    /\ evals = <<TRUE>>
    /\ ~condition
    /\ Len(compRet.list) = NumChildren
    /\ childResult[1] # childResult[NumChildren]

\* every middleware of the list calls its continuation exactly once
CallOnce(mws) == \A k \in 1 .. Len(mws) : mws[k] = 1

\* before-parts outermost first, the task, after-parts innermost first, all on
\* context x
Onion(n, x) ==
    [k \in 1 .. (2 * n + 1) |->
        IF k <= n THEN Ran("before", k, x)
        ELSE IF k = n + 1 THEN Ran("task", 0, x)
        ELSE Ran("after", 2 * n + 2 - k, x)]

\* C28: when every middleware of m[0..n-1] calls its continuation exactly
\* once, a pass runs the before-parts in the order m[0], ..., m[n-1], then the
\* task, then the after-parts in the order m[n-1], ..., m[0], each exactly
\* once and all on the same context.
C28_MiddlewareWrapsInOrder ==
    (CallOnce(middleware) /\ mw.state # "idle")
        => LET n == Len(middleware)
               want == Onion(n, mw.ctx)
           IN /\ Len(mw.log) <= Len(want)
              /\ mw.log = SubSeq(want, 1, Len(mw.log))
              /\ mw.state = "done" => mw.log = want

\* a pass through NumMiddleware middlewares that call their continuation once
\* each is over
C28_Witness ==
    /\ Len(middleware) = NumMiddleware
    /\ CallOnce(middleware)
    /\ mw.state = "done"
    /\ Len(mw.log) = 2 * NumMiddleware + 1

\* the middlewares that have returned in pass p without having called their
\* continuation
Skippers(p, mws) ==
    {k \in 1 .. Len(mws) :
        mws[k] = 0 /\ \E n \in 1 .. Len(p.log) : p.log[n] = Ran("after", k, p.ctx)}

\* pcs of a call of execute between the start of the pass around a task and
\* the checkpoint of that step
StepPcs == {"middleware", "unitOfWork", "taskSave", "taskFinishHooks", "saveStep"}

\* C29: once a middleware has returned without calling its continuation,
\* neither a later middleware nor the task runs in that step: the task's
\* status and recorded output stay as they were and no error is raised; the
\* workflow goes on as after a task: the end of the pass fires onTaskFinish,
\* the checkpoint is persisted and the loop advances to the next task.
C29_SkippedStepCountsAsDone ==
    /\ [](\A c \in Calls :
             LET r == calls[c] IN
             (r.kind = "execute" /\ r.pc \in StepPcs /\ Skippers(mw, middleware) # {})
                 => /\ \A n \in 1 .. Len(mw.log) :
                           /\ mw.log[n].part # "task"
                           /\ \A k \in Skippers(mw, middleware) : mw.log[n].mw <= k
                    /\ r.pc \in {"middleware", "taskFinishHooks", "saveStep"}
                    /\ taskStatus[r.task] = "Pending"
                    /\ started[r.task] = 0
                    /\ ctxs[context[r.w]].taskOutputs[r.task] = 0
                    /\ r.err = "none")
    /\ [][\A c \in Calls :
             LET r == calls[c]  q == calls'[c] IN
             /\ (r.kind = "execute" /\ mw.state # "done" /\ mw'.state = "done")
                   => q.pc = "taskFinishHooks"
             /\ (r.pc = "taskFinishHooks" /\ q.pc # r.pc)
                   => /\ q.pc = "saveStep"
                      /\ workflowStates' = SavedState("Running", r.task)
             /\ (r.pc = "saveStep" /\ q.pc # r.pc)
                   => currentTaskIndex'[r.w] = r.task + 1]_vars

\* C30: executeHooks starts every hook registered under the event name, each
\* exactly once and in registration order; when the call has settled every
\* hook of the event has run to completion, also when one of them rejected,
\* and the call has rejected exactly when some hook did.
C30_HooksAllAwaitedBeforeSettling ==
    LET t == hooksCall.hookType IN
    hooksCall.pc # "idle" =>
        /\ hookStarts = [k \in Registered(t) |-> <<t, k>>]
        /\ \A u \in HookTypes \ {t} : \A k \in HookSlots : hookPc[u][k] = "idle"
        /\ hooksCall.pc \in {"resolved", "rejected"}
              => /\ \A k \in Registered(t) : hookPc[t][k] \in {"resolved", "rejected"}
                 /\ hooksCall.pc = "rejected"
                       <=> \E k \in Registered(t) : hookPc[t][k] = "rejected"


\* ------------------------------------------------------------------ C31
\* C31: schedule(newExpression) called while a trigger is armed leaves the
\* armed trigger and its expression unchanged; the new expression is used only
\* by the next start() that actually arms a trigger, so the expression of an
\* armed trigger always equals the expression stored at the time of the
\* start() that armed it.
C31_RescheduleTakesEffectOnNextStart ==
    [][LET m == scheduleCall' IN
         \* the expression of a job, once created, never changes
         /\ \A id \in DOMAIN jobExpression : jobExpression'[id] = jobExpression[id]
         /\ m.op = "schedule" =>
                /\ <<cronJob, armed, jobs>>' = <<cronJob, armed, jobs>>
                /\ cronExpression' = m.name
         \* a job is created by a start() only, from the expression stored then
         /\ jobs' # jobs =>
                /\ m.op = "start"
                /\ armed = {}
                /\ jobs' = jobs + 1
                /\ armed' = {jobs'}
                /\ jobExpression'[jobs'] = cronExpression
         /\ m.op # "schedule" => cronExpression' = cronExpression]_vars

\* schedule() was called with another expression while the trigger of the
\* second job was armed, and that job had been armed with an expression set by
\* an earlier schedule()
C31_Witness ==
    /\ scheduleCall.op = "schedule"
    /\ jobs = 2
    /\ armed = {2}
    /\ jobExpression[1] # jobExpression[2]
    /\ cronExpression # jobExpression[2]

\* ------------------------------------------------------------------ C32
\* the step of call c leaves the for loop (by its condition or by the break)
LeavesLoop(c) ==
    /\ calls[c].kind \in {"execute", "resume"}
    /\ \/ calls[c].pc \in {"wfStartHooks", "saveStep"}
       \/ calls[c].pc = "saveStart" /\ calls[c].kind = "resume"
    /\ calls'[c].pc \notin {calls[c].pc, "taskStartHooks", "savePaused", "handleError"}
    /\ ~(calls'[c].pc = "rejected" /\ calls'[c].err = "HookError")

\* C32: when the stepping loop finishes with neither the cancelled nor the
\* paused flag set, the workflow fires onAllTasksFinish, then onWorkflowFinish,
\* then sets the status to Completed and persists it, then sets the final
\* output to the collapse of all per-task outputs and returns it; when one of
\* the flags is set at that point, none of these hooks fire and the status is
\* not set to Completed.
C32_CompletionSequenceAfterLoop ==
    [][\A c \in Calls :
         LET r == calls[c]  q == calls'[c]  w == r.w IN
         /\ LeavesLoop(c) =>
                IF ~isCancelled[w] /\ ~isPaused[w]
                THEN /\ q.pc = "allFinishHooks"
                     /\ currentTaskIndex'[w] >= NumTasks
                     /\ status' = status
                ELSE /\ q.pc \in {"returned", "rejected"}
                     /\ status' = status
                     /\ workflowStates' = workflowStates
         \* the hooks are fired after the loop only, in this order
         /\ (q.pc = "allFinishHooks" /\ r.pc # "allFinishHooks") => LeavesLoop(c)
         /\ (q.pc = "wfFinishHooks" /\ r.pc # "wfFinishHooks") => r.pc = "allFinishHooks"
         /\ (r.pc = "allFinishHooks" /\ q.pc # r.pc) =>
                \/ q.pc = "wfFinishHooks" /\ status' = status
                \/ q.err = "HookError"
         \* Completed is set and persisted once onWorkflowFinish has resolved
         /\ (r.pc = "wfFinishHooks" /\ q.pc # r.pc) =>
                \/ /\ q.pc = "saveCompleted"
                   /\ status'[w] = "Completed"
                   /\ workflowStates'.status = "Completed"
                \/ q.err = "HookError"
         /\ (q.pc = "saveCompleted" /\ r.pc # "saveCompleted") => r.pc = "wfFinishHooks"
         \* then the collapse of the per-task outputs is stored and returned
         /\ (r.pc = "saveCompleted" /\ q.pc # r.pc) =>
                /\ context[w] # 0
                /\ q.pc = "returned"
                /\ q.ret = ctxs[context[w]].taskOutputs
                /\ ctxs'[context[w]].output = ctxs[context[w]].taskOutputs
                /\ ctxs'[context[w]].taskOutputs = ctxs[context[w]].taskOutputs
                /\ status' = status
         /\ \A v \in Inst :
                (status'[v] = "Completed" /\ status[v] # "Completed") =>
                    \E d \in Calls : /\ calls[d].w = v
                                     /\ calls[d].pc = "wfFinishHooks"
                                     /\ calls'[d].pc = "saveCompleted"]_vars

\* a resume() that went through the completion sequence has returned the
\* collapse of the outputs of all tasks
C32_Witness ==
    \E c \in Calls :
        /\ calls[c].kind = "resume"
        /\ calls[c].pc = "returned"
        /\ status["original"] = "Completed"
        /\ calls[c].ret = FullOutput
        /\ ctxs[context["original"]].output = FullOutput

\* ------------------------------------------------------------------ C33
\* the names under which context x holds a per-task output
Keys(x) == {i \in Tasks : x.taskOutputs[i] > 0}

\* the step starts a new execute() on instance w
StartsExecute(w) ==
    \E c \in Calls : c[1] = w /\ calls[c].kind = "none" /\ calls'[c].kind = "execute"

\* the step is the success of an attempt of task i run on context x
AttemptSucceeds(i, x) ==
    \E c \in Calls : /\ calls[c].pc = "unitOfWork"
                     /\ calls[c].task = i
                     /\ calls[c].ctx = x
                     /\ calls'[c].pc = "taskSave"

\* C33: during one workflow execution (an execute call with its later resume
\* calls) the set of keys of the context's per-task-output map only grows: no
\* task, retry, hook, pause, resume or cancel removes an entry; an entry is
\* written only when an attempt of its task succeeded; the input of the
\* context never changes.
C33_TaskOutputsAppendOnly ==
    [][/\ \A w \in Inst : context'[w] # context[w] => StartsExecute(w)
       /\ \A x \in DOMAIN ctxs :
              /\ ctxs'[x].input = ctxs[x].input
              /\ Keys(ctxs[x]) \subseteq Keys(ctxs'[x])
              /\ \A i \in Tasks :
                     ctxs'[x].taskOutputs[i] # ctxs[x].taskOutputs[i] =>
                         AttemptSucceeds(i, x)]_vars

\* an execution that was paused, resumed and then cancelled holds the outputs
\* of two tasks
C33_Witness ==
    /\ context["original"] = 1
    /\ ctxs[1].input = 1
    /\ Keys(ctxs[1]) = {0, 1}
    /\ status["original"] = "Cancelled"
    /\ \E c \in Calls : calls[c].kind = "resume" /\ calls[c].pc = "returned"
    /\ calls[First("original")].pc = "returned"

\* ------------------------------------------------------------------ C34
\* the execute / resume calls on instance w whose stepping loop is under way
Loops(w) == {c \in Calls : calls[c].w = w /\ calls[c].kind \in {"execute", "resume"} /\ Active(c)}

\* C34: under every interleaving of execute, pause and resume calls on one
\* workflow instance, including resume called while the task that was in
\* flight at the pause is still running, at most one stepping loop is
\* advancing currentTaskIndex at any time and no task of the list is started
\* more than once.
C34_OneLoopNoTaskStartedTwice ==
    /\ Cardinality(Loops("original")) <= 1
    /\ \A i \in Tasks : started[i] <= 1

\* ------------------------------------------------------------------ C35
\* how often hook event h was fired after a loop by the calls on instance w
Fired(w, h) ==
    LET RECURSIVE Count(_)
        Count(cs) == IF cs = {} THEN 0
                     ELSE LET c == CHOOSE d \in cs : TRUE
                          IN Len(SelectSeq(calls[c].fired, LAMBDA e : e = h)) + Count(cs \ {c})
    IN Count({c \in Calls : calls[c].w = w})

\* C35: whenever the workflow status is Completed, every task of the list has
\* been started and has finished (none is still in flight and none was never
\* started), and the onAllTasksFinish and onWorkflowFinish hooks have each
\* been fired exactly once for that execution.
C35_CompletedMeansAllTasksDone ==
    status["original"] = "Completed" =>
        /\ \A i \in Tasks : started[i] >= 1 /\ taskStatus[i] = "Completed"
        /\ \A c \in Calls : calls[c].pc \notin RunPcs \cup {"taskStartHooks", "taskFinishHooks"}
        /\ Fired("original", "onAllTasksFinish") = 1
        /\ Fired("original", "onWorkflowFinish") = 1

\* ------------------------------------------------------------------ C36
\* C36: whenever an execute or resume loop has stopped because the workflow is
\* paused (also when pause was requested while the last task of the list was
\* running), the most recently persisted checkpoint has status Paused and a
\* currentTaskIndex equal to the in-memory currentTaskIndex, which equals the
\* number of tasks that have completed.
C36_PausedCheckpointMatchesMemory ==
    PausedAndStopped("original") =>
        /\ workflowStates = SavedState("Paused", currentTaskIndex["original"])
        /\ currentTaskIndex["original"] =
               Cardinality({i \in Tasks : taskStatus[i] = "Completed"})

\* ------------------------------------------------------------------ C37
\* C37: whenever execute rejects after the workflow has entered Running, the
\* workflow status is Failed and a checkpoint with status Failed has been
\* persisted, whatever the onWorkflowError hooks do (also when one of them
\* rejects), and the error delivered to the caller is the error that caused
\* the failure.
C37_RejectedExecuteIsFailedAndSaved ==
    \A c \in Calls :
        (calls[c].kind = "execute" /\ calls[c].pc = "rejected") =>
            /\ status[calls[c].w] = "Failed"
            /\ workflowStates.status = "Failed"
            /\ calls[c].err = calls[c].cause

\* ------------------------------------------------------------------ C38
\* the invocations of the unit of work of Task.run call c that have not
\* settled: those left behind by timed-out attempts and the one awaited
Unsettled(c) == calls[c].orphans + (IF calls[c].pc = "unitOfWork" THEN 1 ELSE 0)

\* C38: during one Task.run at most one invocation of the task's unit of work
\* is in flight at any time: a retry attempt that follows a timed-out attempt
\* does not start while the timed-out invocation is still running.
C38_OneInvocationInFlight ==
    \A c \in Calls : calls[c].kind = "run" => Unsettled(c) <= 1

\* ------------------------------------------------------------------ C39
\* C39: once a workflow's status is Failed, the per-task outputs in its
\* context and the statuses of its tasks no longer change: when one child of
\* a ParallelTask fails, no sibling child records an output or changes status
\* after the workflow has been marked Failed.
C39_NothingChangesAfterFailed ==
    [][status["original"] = "Failed" =>
           /\ childOutputs' = childOutputs
           /\ childStatus' = childStatus
           /\ compStatus' = compStatus
           /\ taskStatus' = taskStatus
           /\ \A x \in DOMAIN ctxs : ctxs'[x].taskOutputs = ctxs[x].taskOutputs]_vars

\* ------------------------------------------------------------------ C40
\* how often a pass has entered middleware k (k = 0: has invoked the task)
Entries(p, k) ==
    Len(SelectSeq(p.log, LAMBDA e : e.mw = k /\ e.part \in {"before", "task"}))

\* C40: for every middleware chain, whatever number of times each middleware
\* invokes its continuation, one pass of runMiddlewareWithTask runs the
\* wrapped task at most once and each middleware at most once.
C40_TaskAndMiddlewareAtMostOnce ==
    \A k \in 0 .. Len(middleware) : Entries(mw, k) <= 1

====
